---- MODULE Spec2Model ----
(***************************************************************************)
(* A model of the InsightFlow backend core:                                *)
(*   - MultiTenantVectorStore  (retriever/multi_tenant_vector_store.py)    *)
(*   - ChromaVectorStore       (retriever/chroma_vector_store.py)          *)
(*   - StreamingInsightFlowAgent (graphs/streaming_agent_graph.py)         *)
(*   - FastInsightFlowAgent    (graphs/fast_agent_graph.py)                *)
(*   - the session / cache endpoints of main.py                            *)
(*                                                                         *)
(* Text is modelled as a sequence of one-character strings, so that        *)
(* Python's  str.lower(), slicing and the substring test  "kw in text"     *)
(* are computed the way the code computes them.                            *)
(***************************************************************************)
EXTENDS Integers, Sequences, FiniteSets, TLC

VARIABLES
    collections,          \* MultiTenantVectorStore.client: collection name -> chunks, in insertion order
    ret,                  \* the last MultiTenantVectorStore call and what it returned
    collection,           \* ChromaVectorStore.collection (the pipeline's index): chunks in insertion order
    conversation_memory,  \* StreamingInsightFlowAgent.conversation_memory: id -> list of turns
    session_metadata,     \* StreamingInsightFlowAgent.session_metadata: id -> metadata
    fast_memory,          \* FastInsightFlowAgent.conversation_memory
    now,                  \* time.time(), in hours
    runs,                 \* the process_query_stream generators in flight
    fast_runs,            \* the FastInsightFlowAgent.process_query calls in flight
    requests,             \* number of streaming requests received so far
    fast_requests,        \* number of POST /query requests received so far
    appended              \* history variable: every turn appended to a streaming session since it was last emptied

storeVars == <<collections, ret>>
pipeVars  == <<collection, conversation_memory, session_metadata, fast_memory, now,
               runs, fast_runs, requests, fast_requests, appended>>
vars == <<collections, ret, collection, conversation_memory, session_metadata,
          fast_memory, now, runs, fast_runs, requests, fast_requests, appended>>

----------------------------------------------------------------------------
(* Generic helpers *)

Min(a, b) == IF a <= b THEN a ELSE b

\* Python  s[:n]
Take(s, n) == SubSeq(s, 1, Min(n, Len(s)))

\* Python  s[-n:]   (n > 0)
LastN(s, n) == IF Len(s) <= n THEN s ELSE SubSeq(s, Len(s) - n + 1, Len(s))

\* Python  sub in text   (substring test on characters)
Contains(sub, text) ==
    \E i \in 1..(Len(text) - Len(sub) + 1) :
        \A j \in 1..Len(sub) : text[i + j - 1] = sub[j]

Range(s) == { s[i] : i \in DOMAIN s }

----------------------------------------------------------------------------
(* Organizations and the namespace derivation *)

\* Three organization ids (uuid.UUID values, as str(org_id) prints them).
\* OrgA and OrgB are two UUIDs whose MD5 digests share their first 8 hex digits;
\* OrgC is the id used by tests/test_organization_service.py.
OrgA == <<"2","1","d","c","7","6","6","8","-","6","3","7","8","-","4","5","a","7","-","9","e","c","8","-","a","c","4","1","8","f","4","d","5","f","8","6">>
OrgB == <<"8","6","0","9","7","9","f","0","-","9","4","3","9","-","4","f","3","3","-","8","5","1","a","-","c","2","f","2","9","b","8","8","3","3","d","9">>
OrgC == <<"1","2","3","4","5","6","7","8","-","1","2","3","4","-","5","6","7","8","-","1","2","3","4","-","5","6","7","8","1","2","3","4","5","6","7","8">>

OrgIds == {OrgA, OrgB, OrgC}

\* Python  s.replace('-', '')
RemoveDashes(s) == SelectSeq(s, LAMBDA c : c # "-")

\* hashlib.md5(org_str.encode()).hexdigest() : the digests of the three ids above.
Md5Hex(org_str) ==
    CASE org_str = RemoveDashes(OrgA) ->
           <<"5","7","9","9","5","4","d","5","e","4","a","4","f","5","f","c","b","6","7","c","e","c","e","c","4","7","4","e","6","7","c","d">>
      [] org_str = RemoveDashes(OrgB) ->
           <<"5","7","9","9","5","4","d","5","b","1","d","4","1","4","4","0","0","3","7","6","7","6","b","5","3","b","e","e","d","7","b","5">>
      [] org_str = RemoveDashes(OrgC) ->
           <<"8","9","9","3","9","3","0","e","2","7","1","c","9","9","8","5","b","3","0","4","d","8","3","2","3","9","d","0","c","7","0","d">>

\* Variant of get_collection_name that takes the first 8 characters of the id
\* itself (the name of C19 depends on the digest)
NameFromIdPrefix(org_id) ==
    <<"o","r","g","_">> \o Take(RemoveDashes(org_id), 8) \o <<"_","d","o","c","s">>

\* MultiTenantVectorStore.get_collection_name
get_collection_name(org_id) ==
    LET org_str    == RemoveDashes(org_id)
        short_hash == Take(Md5Hex(org_str), 8)
    IN  <<"o","r","g","_">> \o short_hash \o <<"_","d","o","c","s">>

\* Variant of create_org_collection_name that hashes the id as printed, with
\* its dashes (the agreement of C37 depends on both derivations removing them):
\* hashlib.md5(str(org_id).encode()).hexdigest()[:8] of the three ids
NameFromDashedId(org_id) ==
    LET short_hash == CASE org_id = OrgA -> <<"3","1","7","1","d","e","7","2">>
                        [] org_id = OrgB -> <<"3","e","7","1","8","1","d","c">>
                        [] org_id = OrgC -> <<"a","d","f","0","4","b","a","f">>
    IN  <<"o","r","g","_">> \o short_hash \o <<"_","d","o","c","s">>

\* OrganizationService.create_org_collection_name
create_org_collection_name(org_id) ==
    LET org_str    == RemoveDashes(org_id)
        short_hash == Take(Md5Hex(org_str), 8)
    IN  <<"o","r","g","_">> \o short_hash \o <<"_","d","o","c","s">>

----------------------------------------------------------------------------
(* MultiTenantVectorStore: one ChromaDB collection per collection name *)

MaxStored == 2     \* chunks kept in the whole store
MaxK      == 2     \* largest n_results asked of search

DocIds  == {"d1", "d2"}          \* document UUIDs
Queries == {"alpha", "between"}  \* query texts

\* The chunk texts of the files that get uploaded (the splitter's output)
Files == { <<"alpha">>, <<"alpha", "beta">> }

\* The embedding model (all-MiniLM-L6-v2) is an external collaborator: a fixed
\* map from text to a point.  "alpha" and "beta" are equally far from "between".
Embed(text) ==
    CASE text = "alpha"   -> 0
      [] text = "between" -> 1
      [] text = "beta"    -> 2

\* ChromaDB's default metric: squared L2 distance
Distance(e1, e2) == (e1 - e2) * (e1 - e2)

\* api/documents.py builds the langchain Documents handed to add_documents
MakeDocs(org_id, document_id, texts) ==
    [i \in 1..Len(texts) |->
        [page_content |-> texts[i],
         metadata |-> [source      |-> "file.txt",
                       document_id |-> document_id,
                       chunk_index |-> i - 1,
                       file_type   |-> "txt",
                       org_id      |-> org_id]]]

\* client.get_collection(name) / client.create_collection(name): the collections
\* that exist after get_org_collection(org_id) has run
get_org_collection(colls, org_id) ==
    LET collection_name == get_collection_name(org_id)
    IN  IF collection_name \in DOMAIN colls
        THEN colls
        ELSE [n \in DOMAIN colls \cup {collection_name} |->
                 IF n = collection_name THEN <<>> ELSE colls[n]]

\* The chunks add_documents prepares (ids, texts, metadatas, embeddings)
PreparedChunks(org_id, documents, document_id) ==
    [i \in 1..Len(documents) |->
        [id        |-> <<document_id, i - 1>>,
         document  |-> documents[i].page_content,
         embedding |-> Embed(documents[i].page_content),
         metadata  |-> documents[i].metadata @@
                       [document_id |-> document_id,
                        org_id      |-> org_id,
                        chunk_index |-> i - 1,
                        source      |-> documents[i].metadata.source]]]

\* collection.add: a chunk whose id is already stored is skipped
CollectionAdd(stored, chunks) ==
    LET ids == { stored[i].id : i \in DOMAIN stored }
    IN  stored \o SelectSeq(chunks, LAMBDA c : c.id \notin ids)

\* Number of chunks in the whole store
RECURSIVE SumLen(_, _)
SumLen(colls, names) ==
    IF names = {} THEN 0
    ELSE LET n == CHOOSE x \in names : TRUE
         IN  Len(colls[n]) + SumLen(colls, names \ {n})

StoredCount(colls) == SumLen(colls, DOMAIN colls)

\* Variant of add_documents that embeds and stores one chunk at a time, so a
\* failure at a later chunk leaves the earlier ones stored (the atomicity of
\* C14 depends on all embeddings being computed before the single collection.add)
AddDocumentsChunkwise(org_id, documents, document_id, embed_ok) ==
    LET name   == get_collection_name(org_id)
        colls1 == get_org_collection(collections, org_id)
        chunks == PreparedChunks(org_id, documents, document_id)
        done   == IF embed_ok THEN chunks ELSE Take(chunks, 1)
    IN  /\ StoredCount([colls1 EXCEPT ![name] = CollectionAdd(@, done)]) <= MaxStored
        /\ collections' = [colls1 EXCEPT ![name] = CollectionAdd(@, done)]
        /\ ret' = [op |-> "add_documents", org_id |-> org_id,
                   document_id |-> document_id, n_results |-> 0, query |-> "",
                   result |-> [success |-> embed_ok,
                               chunks_added |-> IF embed_ok THEN Len(documents) ELSE 0,
                               collection_name |-> IF embed_ok THEN name ELSE <<>>]]

\* MultiTenantVectorStore.add_documents.
\* embed_ok: embed_documents and collection.add did not raise.  When either
\* raises, nothing has been written and the except clause reports the failure.
add_documents(org_id, documents, document_id, embed_ok) ==
    LET name   == get_collection_name(org_id)
        colls1 == get_org_collection(collections, org_id)
        chunks == PreparedChunks(org_id, documents, document_id)
    IN  IF embed_ok
        THEN /\ StoredCount([colls1 EXCEPT ![name] = CollectionAdd(@, chunks)]) <= MaxStored
             /\ collections' = [colls1 EXCEPT ![name] = CollectionAdd(@, chunks)]
             /\ ret' = [op |-> "add_documents", org_id |-> org_id,
                        document_id |-> document_id, n_results |-> 0, query |-> "",
                        result |-> [success |-> TRUE, chunks_added |-> Len(documents),
                                    collection_name |-> name]]
        ELSE /\ collections' = colls1
             /\ ret' = [op |-> "add_documents", org_id |-> org_id,
                        document_id |-> document_id, n_results |-> 0, query |-> "",
                        result |-> [success |-> FALSE, chunks_added |-> 0,
                                    collection_name |-> <<>>]]

\* Variant of NearestOrders that yields the farthest chunks first (the round
\* trip of C21 depends on the nearest chunk coming first)
FarthestOrders(distances, n_results) ==
    LET m == Min(n_results, Len(distances))
    IN  { s \in [1..m -> DOMAIN distances] :
            /\ \A i, j \in 1..m :
                   i < j => (s[i] # s[j] /\ distances[s[i]] >= distances[s[j]])
            /\ \A k \in DOMAIN distances :
                   (\A i \in 1..m : s[i] # k) =>
                       \A i \in 1..m : distances[s[i]] >= distances[k] }

\* collection.query: the n_results nearest chunks by increasing distance, as
\* positions in the collection.  ChromaDB does not fix the order of chunks that
\* are equally far from the query, so every such order is possible.
\* distances[i] is the distance of chunk i from the query.
NearestOrders(distances, n_results) ==
    LET m == Min(n_results, Len(distances))
    IN  { s \in [1..m -> DOMAIN distances] :
            /\ \A i, j \in 1..m :
                   i < j => (s[i] # s[j] /\ distances[s[i]] <= distances[s[j]])
            /\ \A k \in DOMAIN distances :
                   (\A i \in 1..m : s[i] # k) =>
                       \A i \in 1..m : distances[s[i]] <= distances[k] }

QueryOrders(stored, query_embedding, n_results) ==
    NearestOrders([i \in DOMAIN stored |->
                       Distance(query_embedding, stored[i].embedding)], n_results)

\* Variant of SimilarityScore that grows with the distance, d / (1 + d) (the
\* gapless ranks of C38 depend on nearer candidates scoring higher)
ScoreGrowsWithDistance(distance) == <<distance, 1 + distance>>

\* similarity_score = 1 / (1 + distance), kept exact as <<numerator, denominator>>
SimilarityScore(distance) == <<1, 1 + distance>>

\* a >= b for two positive fractions
ScoreGeq(a, b) == a[1] * b[2] >= b[1] * a[2]

\* The result list search builds from the candidates ChromaDB returned
SearchResults(stored, order, query_embedding, similarity_threshold) ==
    LET cand(i) == [content  |-> stored[order[i]].document,
                    metadata |-> stored[order[i]].metadata,
                    similarity_score |->
                        SimilarityScore(Distance(query_embedding, stored[order[i]].embedding)),
                    rank |-> i]
        all == [i \in 1..Len(order) |-> cand(i)]
    IN  SelectSeq(all, LAMBDA r : ScoreGeq(r.similarity_score, similarity_threshold))

Thresholds == { <<0, 1>>, <<1, 5>>, <<1, 1>> }

\* Variant of search that only looks the collection up (client.get_collection)
\* and reports the lookup error when it does not exist (the empty answer of
\* C17 for a namespace never written depends on get_org_collection creating it)
SearchExistingOnly(org_id, query, n_results, similarity_threshold, embed_ok) ==
    LET name == get_collection_name(org_id)
    IN  /\ collections' = collections
        /\ IF name \in DOMAIN collections
           THEN \E order \in QueryOrders(collections[name], Embed(query), n_results) :
                  ret' = [op |-> "search", org_id |-> org_id, document_id |-> "",
                          embed_ok |-> embed_ok, n_results |-> n_results, query |-> query,
                          result |-> SearchResults(collections[name], order, Embed(query),
                                                   similarity_threshold)]
           ELSE ret' = [op |-> "search", org_id |-> org_id, document_id |-> "",
                        embed_ok |-> embed_ok, n_results |-> n_results, query |-> query,
                        result |-> << [error |-> "Collection does not exist"] >>]

\* MultiTenantVectorStore.search.
\* embed_ok: embed_query did not raise (kept in the call record).  collection.query raises for
\* n_results <= 0; every exception is caught and [] returned.
search(org_id, query, n_results, similarity_threshold, embed_ok) ==
    LET name   == get_collection_name(org_id)
        colls1 == get_org_collection(collections, org_id)
    IN  /\ collections' = colls1
        /\ IF embed_ok /\ n_results > 0
           THEN \E order \in QueryOrders(colls1[name], Embed(query), n_results) :
                  ret' = [op |-> "search", org_id |-> org_id, document_id |-> "",
                          embed_ok |-> embed_ok, n_results |-> n_results, query |-> query,
                          result |-> SearchResults(colls1[name], order, Embed(query),
                                                   similarity_threshold)]
           ELSE ret' = [op |-> "search", org_id |-> org_id, document_id |-> "",
                        embed_ok |-> embed_ok, n_results |-> n_results, query |-> query, result |-> <<>>]

\* Variant of delete_document that reports a failure when the document has no
\* chunk (the success with chunks_deleted = 0 of C18 depends on the else branch)
DeleteDocumentStrict(org_id, document_id) ==
    LET name   == get_collection_name(org_id)
        colls1 == get_org_collection(collections, org_id)
        hit(c) == c.metadata.document_id = document_id
        ids    == SelectSeq(colls1[name], hit)
    IN  /\ collections' = [colls1 EXCEPT ![name] = SelectSeq(@, LAMBDA c : ~hit(c))]
        /\ ret' = [op |-> "delete_document", org_id |-> org_id,
                   document_id |-> document_id, n_results |-> 0, query |-> "",
                   result |-> [success |-> Len(ids) > 0, chunks_deleted |-> Len(ids)]]

\* MultiTenantVectorStore.delete_document
delete_document(org_id, document_id) ==
    LET name   == get_collection_name(org_id)
        colls1 == get_org_collection(collections, org_id)
        hit(c) == c.metadata.document_id = document_id
        ids    == SelectSeq(colls1[name], hit)
    IN  /\ collections' = [colls1 EXCEPT ![name] = SelectSeq(@, LAMBDA c : ~hit(c))]
        /\ ret' = [op |-> "delete_document", org_id |-> org_id,
                   document_id |-> document_id, n_results |-> 0, query |-> "",
                   result |-> [success |-> TRUE, chunks_deleted |-> Len(ids)]]

\* MultiTenantVectorStore.clear_organization_data
clear_organization_data(org_id) ==
    LET collection_name == get_collection_name(org_id)
    IN  IF collection_name \in DOMAIN collections
        THEN /\ collections' = [n \in DOMAIN collections \ {collection_name} |-> collections[n]]
             /\ ret' = [op |-> "clear_organization_data", org_id |-> org_id,
                        document_id |-> "", n_results |-> 0, query |-> "",
                        result |-> [success |-> TRUE]]
        ELSE /\ collections' = collections
             /\ ret' = [op |-> "clear_organization_data", org_id |-> org_id,
                        document_id |-> "", n_results |-> 0, query |-> "",
                        result |-> [success |-> FALSE]]

\* The document ids stored anywhere
StoredDocIds(colls) ==
    { c.metadata.document_id : c \in UNION { Range(colls[n]) : n \in DOMAIN colls } }

\* upload_document: the document id is the fresh primary key of the new
\* Document row, so it names no stored chunk
AddDocuments ==
    /\ \E org_id \in OrgIds, document_id \in DocIds \ StoredDocIds(collections),
          texts \in Files, embed_ok \in BOOLEAN :
        add_documents(org_id, MakeDocs(org_id, document_id, texts), document_id, embed_ok)
    /\ UNCHANGED pipeVars

Search ==
    /\ \E org_id \in OrgIds, query \in Queries, n_results \in 0..MaxK,
          similarity_threshold \in Thresholds, embed_ok \in BOOLEAN :
        search(org_id, query, n_results, similarity_threshold, embed_ok)
    /\ UNCHANGED pipeVars

DeleteDocument ==
    /\ \E org_id \in OrgIds, document_id \in DocIds : delete_document(org_id, document_id)
    /\ UNCHANGED pipeVars

ClearOrganizationData ==
    /\ \E org_id \in OrgIds : clear_organization_data(org_id)
    /\ UNCHANGED pipeVars

----------------------------------------------------------------------------
(* Text *)

\* str(e) of the errors of the external calls
Timeout == <<"t","i","m","e","o","u","t">>
ExecutorError == <<"c","a","n","n","o","t"," ","s","c","h","e","d","u","l","e"," ","n","e","w"," ","f","u","t","u","r","e","s"," ","a","f","t","e","r"," ","s","h","u","t","d","o","w","n">>

\* Python  c.lower()  for one character
LowerChar(c) ==
    CASE c = "A" -> "a" [] c = "B" -> "b" [] c = "C" -> "c" [] c = "D" -> "d"
      [] c = "E" -> "e" [] c = "F" -> "f" [] c = "G" -> "g" [] c = "H" -> "h"
      [] c = "I" -> "i" [] c = "J" -> "j" [] c = "K" -> "k" [] c = "L" -> "l"
      [] c = "M" -> "m" [] c = "N" -> "n" [] c = "O" -> "o" [] c = "P" -> "p"
      [] c = "Q" -> "q" [] c = "R" -> "r" [] c = "S" -> "s" [] c = "T" -> "t"
      [] c = "U" -> "u" [] c = "V" -> "v" [] c = "W" -> "w" [] c = "X" -> "x"
      [] c = "Y" -> "y" [] c = "Z" -> "z" [] OTHER -> c

\* Python  s.lower()
Lower(s) == [i \in 1..Len(s) |-> LowerChar(s[i])]

\* Python  len(s.split())
WordCount(s) ==
    Cardinality({ i \in 1..Len(s) : s[i] # " " /\ (i = 1 \/ s[i - 1] = " ") })

\* Python  " ".join(parts)
RECURSIVE JoinSpace(_)
JoinSpace(parts) ==
    IF Len(parts) = 0 THEN <<>>
    ELSE IF Len(parts) = 1 THEN parts[1]
    ELSE parts[1] \o <<" ">> \o JoinSpace(Tail(parts))

\* Python  any(kw in text for kw in keywords)
AnyIn(keywords, text) == \E k \in DOMAIN keywords : Contains(keywords[k], text)

\* classify_query: greetings and conversational phrases
Greetings ==
    << <<"h","e","l","l","o">>,
       <<"h","i">>,
       <<"h","e","y">>,
       <<"g","o","o","d"," ","m","o","r","n","i","n","g">>,
       <<"g","o","o","d"," ","a","f","t","e","r","n","o","o","n">>,
       <<"g","o","o","d"," ","e","v","e","n","i","n","g">>,
       <<"h","o","w"," ","a","r","e"," ","y","o","u">>,
       <<"w","h","a","t","'","s"," ","u","p">>,
       <<"t","h","a","n","k","s">>,
       <<"t","h","a","n","k"," ","y","o","u">>,
       <<"b","y","e">>,
       <<"g","o","o","d","b","y","e">> >>

\* classify_query: the keywords that route to retrieval
RetrievalKeywords ==
    << <<"t","a","x">>,
       <<"d","e","d","u","c","t","i","o","n">>,
       <<"b","u","s","i","n","e","s","s"," ","e","x","p","e","n","s","e">>,
       <<"r","e","g","u","l","a","t","i","o","n">>,
       <<"l","e","g","a","l">>,
       <<"r","u","l","e">>,
       <<"r","e","q","u","i","r","e","m","e","n","t">>,
       <<"c","o","m","p","l","i","a","n","c","e">>,
       <<"G","S","T">>,
       <<"H","S","T">>,
       <<"f","r","e","e","l","a","n","c","e","r">>,
       <<"r","a","t","e">>,
       <<"b","r","a","c","k","e","t">>,
       <<"i","n","c","o","m","e"," ","t","a","x">>,
       <<"d","o","c","u","m","e","n","t">>,
       <<"p","o","l","i","c","y">>,
       <<"g","u","i","d","e","l","i","n","e">>,
       <<"e","x","p","l","a","i","n">>,
       <<"w","h","a","t"," ","i","s">>,
       <<"h","o","w"," ","t","o">>,
       <<"d","e","f","i","n","e">>,
       <<"m","e","a","n","i","n","g">>,
       <<"e","x","a","m","p","l","e">> >>

\* classify_query: the keywords looked for in the previous question
ContextKeywords ==
    << <<"t","a","x">>,
       <<"d","e","d","u","c","t","i","o","n">>,
       <<"b","u","s","i","n","e","s","s">>,
       <<"l","e","g","a","l">>,
       <<"r","u","l","e">> >>

\* FastInsightFlowAgent.classify_query: retrieval keywords
FastRetrievalKeywords ==
    << <<"t","a","x">>,
       <<"d","e","d","u","c","t","i","o","n">>,
       <<"b","u","s","i","n","e","s","s"," ","e","x","p","e","n","s","e">>,
       <<"r","e","g","u","l","a","t","i","o","n">>,
       <<"l","e","g","a","l">>,
       <<"r","u","l","e">>,
       <<"r","e","q","u","i","r","e","m","e","n","t">>,
       <<"c","o","m","p","l","i","a","n","c","e">>,
       <<"G","S","T">>,
       <<"H","S","T">>,
       <<"f","r","e","e","l","a","n","c","e","r">>,
       <<"r","a","t","e">>,
       <<"b","r","a","c","k","e","t">>,
       <<"i","n","c","o","m","e"," ","t","a","x">> >>

\* FastInsightFlowAgent.classify_query: tool keywords
FastToolKeywords ==
    << <<"c","a","l","c","u","l","a","t","e">>,
       <<"c","o","m","p","u","t","e">>,
       <<"w","e","a","t","h","e","r">>,
       <<"p","r","i","c","e">>,
       <<"c","u","r","r","e","n","t">>,
       <<"r","e","c","e","n","t">>,
       <<"n","e","w","s">>,
       <<"+">>,
       <<"%">>,
       <<"p","e","r","c","e","n","t">>,
       <<"d","a","t","e">>,
       <<"t","i","m","e">>,
       <<"t","o","d","a","y">>,
       <<"n","o","w">>,
       <<"w","h","a","t"," ","d","a","y">>,
       <<"w","h","a","t"," ","t","i","m","e">> >>

\* Questions asked of the pipeline
Q_hello == <<"h","e","l","l","o">>
Q_tax == <<"w","h","a","t"," ","i","s"," ","t","a","x">>
Q_after == <<"a","n","d"," ","a","f","t","e","r","?">>

\* The text stream_response yields when the model call fails:  f"Error: {str(e)}"
ErrorText == <<"E","r","r","o","r",":"," ","t","i","m","e","o","u","t">>

\* Texts of uploaded files
T_tax == <<"t","a","x"," ","r","u","l","e","s">>
T_gst == <<"g","s","t"," ","g","u","i","d","e">>
T_menu == <<"l","u","n","c","h"," ","m","e","n","u">>

----------------------------------------------------------------------------
(* Specification of the tenant store *)

NoCall == [op |-> "none", org_id |-> <<>>, document_id |-> "", n_results |-> 0, query |-> "",
           result |-> <<>>]

\* The chunks that were added under an organization and are still stored
ChunksUnder(colls, org_id) ==
    { c \in UNION { Range(colls[n]) : n \in DOMAIN colls } : c.metadata.org_id = org_id }

\* C3: every result of search(A, q, k) is a chunk that was added under A.
C3_SearchReturnsOnlyOwnChunks ==
    ret.op = "search" =>
        \A i \in DOMAIN ret.result : ret.result[i].metadata.org_id = ret.org_id

\* C4: delete_document(A, d) and clear_organization_data(A) leave the chunks
\* stored under every other organization B unchanged.
C4_DeleteLeavesOtherOrgs ==
    [][ ret'.op \in {"delete_document", "clear_organization_data"} =>
          \A B \in OrgIds \ {ret'.org_id} :
              ChunksUnder(collections', B) = ChunksUnder(collections, B) ]_vars

----------------------------------------------------------------------------
(* ChromaVectorStore: the single collection the pipeline retrieves from *)

\* hashlib.md5(file_content).hexdigest()[:8] of the uploaded texts
ContentHash8(text) ==
    CASE text = T_tax -> <<"2","9","7","3","d","8","0","f">>
      [] text = T_gst -> <<"b","9","4","4","7","4","f","1">>
      [] text = T_menu -> <<"4","9","3","3","5","7","4","0">>

\* The embedding model, for the cosine metric of this collection: a text is a
\* direction, given as a multiple of 90 degrees; a text not listed is at a
\* right angle to the listed ones.
Angle(text) ==
    CASE text = Q_tax   -> 0
      [] text = T_tax   -> 0
      [] text = T_gst   -> 1
      [] text = Q_after -> 1
      [] text = Q_hello -> 2
      [] text = T_menu  -> 2
      [] OTHER          -> 1

\* Cosine distance 1 - cos(angle between the two directions)
CosineDistance(a, b) ==
    CASE (a - b) % 4 = 0 -> 0
      [] (a - b) % 4 = 2 -> 2
      [] OTHER           -> 1

\* ChromaVectorStore.add_document_from_file for a text file of one chunk.
\* owner is a history field: the organization whose user uploaded the file
\* (the code records no organization).
add_document_from_file(stored, owner, filename, text) ==
    LET document_id == <<filename, ContentHash8(text)>>
        chunk == [id        |-> <<document_id, "chunk", 0>>,
                  document  |-> text,
                  embedding |-> Angle(text),
                  metadata  |-> [filename    |-> filename,
                                 file_type   |-> "txt",
                                 document_id |-> document_id,
                                 chunk_index |-> 0],
                  owner     |-> owner]
    IN  CollectionAdd(stored, <<chunk>>)

\* ChromaVectorStore.similarity_search: every result list it can return
similarity_search(stored, query, k, embed_ok) ==
    IF ~embed_ok THEN { <<>> }
    ELSE LET d(i) == CosineDistance(Angle(query), stored[i].embedding)
         IN  { [i \in 1..Len(order) |->
                   [id       |-> stored[order[i]].id,
                    content  |-> stored[order[i]].document,
                    metadata |-> stored[order[i]].metadata,
                    score    |-> 1 - d(order[i]),
                    distance |-> d(order[i]),
                    owner    |-> stored[order[i]].owner]] :
               order \in NearestOrders([i \in DOMAIN stored |-> d(i)], k) }

----------------------------------------------------------------------------
(* StreamingInsightFlowAgent *)

StreamKeep  == 10     \* process_query_stream keeps the last 10 exchanges
AnswerLimit == 800    \* process_query_stream stores  full_response[:800]
RetrieveK   == 3      \* retrieve_documents asks for k=3

Runs == {"r1", "r2"}                  \* process_query_stream generators that can be in flight

\* One process_query_stream generator.  caller, rid, seen_history,
\* classified_at, prompt_history, retrieval, persisted and persisted_at are
\* history fields: the organization on whose behalf the request is made (the
\* endpoint records none), the request number, the session history
\* classify_query read and the clock when it read it, the session history the
\* prompt was built from, how the retrieval call went, how many turns the run
\* has appended, and how many events it had emitted when it appended.
IdleRun == [pc |-> "idle", question |-> <<>>, conversation_id |-> "", caller |-> <<>>,
            rid |-> 0, query_type |-> "", seen_history |-> <<>>, classified_at |-> 0,
            prompt_history |-> <<>>,
            retrieval |-> "none", retrieved_docs |-> <<>>, steps |-> <<>>,
            full_response |-> <<>>, ntokens |-> 0, stream_over |-> FALSE,
            events |-> <<>>, persisted |-> 0, persisted_at |-> 0]

\* dict.get(key, [])
Get(d, key) == IF key \in DOMAIN d THEN d[key] ELSE <<>>

\* dict[key] = value
Put(d, key, value) == [k \in DOMAIN d \cup {key} |-> IF k = key THEN value ELSE d[k]]

\* del dict[key]  for every key in keys
Drop(d, keys) == [k \in DOMAIN d \ keys |-> d[k]]

\* classify_query: the context string built from the last 3 exchanges
RECURSIVE RecentTopics(_)
RecentTopics(exchanges) ==
    IF Len(exchanges) = 0 THEN <<>>
    ELSE << Lower(exchanges[1].question), Take(Lower(exchanges[1].answer), 100) >>
         \o RecentTopics(Tail(exchanges))

\* Variant of ClassifyContext that joins every exchange of the session (C29
\* depends on the context being cut to the last 3)
ClassifyContextWhole(history) ==
    IF Len(history) = 0 THEN <<>> ELSE JoinSpace(RecentTopics(history))

ClassifyContext(history) ==
    IF Len(history) = 0 THEN <<>> ELSE JoinSpace(RecentTopics(LastN(history, 3)))

\* Variant of QueryType whose answer to a greeting depends on the clock (the
\* determinism of C22 depends on the route reading nothing but its arguments)
QueryTypeByClock(question, history) ==
    LET question_lower == Lower(question)
        combined_text  == question_lower \o <<" ">> \o ClassifyContext(history)
    IN  IF AnyIn(Greetings, question_lower)
        THEN IF now = 0 THEN "direct" ELSE "retrieval"
        ELSE IF AnyIn(RetrievalKeywords, combined_text) THEN "retrieval"
        ELSE IF WordCount(question) <= 3 /\ Len(history) > 0
             THEN IF AnyIn(ContextKeywords, Lower(history[Len(history)].question))
                  THEN "retrieval" ELSE "direct"
             ELSE "direct"

\* Variant of QueryType that looks for the retrieval keywords before the
\* greetings (the priority of C23 depends on the order of the tests)
QueryTypeRetrievalFirst(question, history) ==
    LET question_lower == Lower(question)
        combined_text  == question_lower \o <<" ">> \o ClassifyContext(history)
    IN  IF AnyIn(RetrievalKeywords, combined_text) THEN "retrieval"
        ELSE IF AnyIn(Greetings, question_lower) THEN "direct"
        ELSE IF WordCount(question) <= 3 /\ Len(history) > 0
             THEN IF AnyIn(ContextKeywords, Lower(history[Len(history)].question))
                  THEN "retrieval" ELSE "direct"
             ELSE "direct"

\* classify_query: the query type
QueryType(question, history) ==
    LET question_lower == Lower(question)
        combined_text  == question_lower \o <<" ">> \o ClassifyContext(history)
    IN  IF AnyIn(Greetings, question_lower) THEN "direct"
        ELSE IF AnyIn(RetrievalKeywords, combined_text) THEN "retrieval"
        ELSE IF WordCount(question) <= 3 /\ Len(history) > 0
             THEN IF AnyIn(ContextKeywords, Lower(history[Len(history)].question))
                  THEN "retrieval" ELSE "direct"
             ELSE "direct"

StepEvent(node, status, progress) ==
    [type |-> "step", node |-> node, status |-> status, content |-> <<>>,
     progress |-> progress]

\* Variant of TokenEvent without the cap at 95 (the progress bounds of C39
\* depend on the min)
TokenEventUncapped(token, full_response) ==
    [type |-> "token", node |-> "", status |-> "", content |-> token,
     progress |-> 800 + Len(full_response)]

\* progress is kept in tenths of a percent:  min(95, 80 + len(full_response) / 10)
TokenEvent(token, full_response) ==
    [type |-> "token", node |-> "", status |-> "", content |-> token,
     progress |-> Min(950, 800 + Len(full_response))]

CompleteEvent ==
    [type |-> "complete", node |-> "", status |-> "", content |-> <<>>, progress |-> 1000]

ErrorEvent ==
    [type |-> "error", node |-> "", status |-> "", content |-> <<>>, progress |-> 1000]

\* A request arrives, on a connection that is idle or whose last response is
\* over: stream_query creates the generator; nothing has run yet.
Receive(r, question, conversation_id, caller, max_requests) ==
    /\ runs[r].pc \in {"idle", "done", "cancelled"}
    /\ requests + fast_requests < max_requests
    /\ requests' = requests + 1
    /\ runs' = [runs EXCEPT ![r] = [IdleRun EXCEPT !.pc = "received",
                                                   !.question = question,
                                                   !.conversation_id = conversation_id,
                                                   !.caller = caller,
                                                   !.rid = requests + 1]]
    /\ UNCHANGED <<collections, ret, fast_requests, collection, conversation_memory, session_metadata, fast_memory, now,
                   fast_runs, appended>>

\* classify_query: the session metadata after it has run
TouchSession(meta, conversation_id, t) ==
    IF conversation_id \in DOMAIN meta
    THEN [meta EXCEPT ![conversation_id].last_active = t]
    ELSE Put(meta, conversation_id,
             [created_at |-> t, last_active |-> t, message_count |-> 0])

\* process_query_stream up to its first yield: classify_query and the step event
Classify(r) ==
    LET run     == runs[r]
        history == Get(conversation_memory, run.conversation_id)
        qt      == QueryType(run.question, history)
    IN  /\ run.pc = "received"
        /\ session_metadata' = TouchSession(session_metadata, run.conversation_id, now)
        /\ runs' = [runs EXCEPT ![r].pc = "classified",
                                ![r].query_type = qt,
                                ![r].seen_history = history,
                                ![r].classified_at = now,
                                ![r].steps = Append(@, [node |-> "QueryClassifier",
                                                        status |-> "completed",
                                                        error |-> <<>>]),
                                ![r].events = Append(@, StepEvent("QueryClassifier",
                                                                  "completed", 200))]
        /\ UNCHANGED <<collections, ret, fast_requests, collection, conversation_memory, fast_memory, now, fast_runs,
                       requests, appended>>

\* retrieve_documents and the step event that follows it.
\* outcome: "ok"; "embed_error": the embedding model or the index raises inside
\* similarity_search, which catches it and returns []; or "executor_error":
\* run_in_executor itself raises and retrieve_documents catches it.
Retrieve(r, outcome) ==
    LET run == runs[r]
    IN  /\ run.pc = "classified"
        /\ run.query_type = "retrieval"
        /\ \E docs \in similarity_search(collection, run.question, RetrieveK,
                                         outcome = "ok") :
             LET got    == IF outcome = "executor_error" THEN <<>> ELSE docs
                 status == IF outcome = "executor_error" THEN "error" ELSE "completed"
                 error  == IF outcome = "executor_error" THEN ExecutorError ELSE <<>>
             IN  runs' = [runs EXCEPT ![r].pc = "retrieved",
                                      ![r].retrieval = outcome,
                                      ![r].retrieved_docs = got,
                                      ![r].steps = Append(@, [node |-> "DocumentRetriever",
                                                              status |-> status,
                                                              error |-> error]),
                                      ![r].events = Append(@, StepEvent("DocumentRetriever",
                                                                        status, 500))]
        /\ UNCHANGED <<collections, ret, fast_requests, collection, conversation_memory, session_metadata, fast_memory,
                       now, fast_runs, requests, appended>>

\* retrieve_documents awaits  loop.run_in_executor(similarity_search)  and the
\* index never answers.  The await has no timeout (no asyncio.wait_for), so the
\* generator stays suspended there.
RetrieveNoResponse(r) ==
    /\ runs[r].pc = "classified"
    /\ runs[r].query_type = "retrieval"
    /\ runs' = [runs EXCEPT ![r].pc = "retrieving",
                            ![r].retrieval = "no_response"]
    /\ UNCHANGED <<collections, ret, fast_requests, collection, conversation_memory,
                   session_metadata, fast_memory, now, fast_runs, requests, appended>>

\* analyze_context and the step event that follows it
Analyze(r) ==
    /\ runs[r].pc = "retrieved"
    /\ runs' = [runs EXCEPT ![r].pc = "analyzed",
                            ![r].steps = Append(@, [node |-> "ContextAnalyzer",
                                                    status |-> "completed",
                                                    error |-> <<>>]),
                            ![r].events = Append(@, StepEvent("ContextAnalyzer",
                                                              "completed", 700))]
    /\ UNCHANGED <<collections, ret, fast_requests, collection, conversation_memory, session_metadata, fast_memory, now,
                   fast_runs, requests, appended>>

\* process_query_stream, "Build response context": the cuts it applies
ContextAnswerCut == 500   \* exchange['answer'][:500]
ContextDocCut == 500      \* docs[0]['content'][:500]

ContextHeader == <<"R","e","c","e","n","t"," ","c","o","n","v","e","r","s","a","t","i","o","n"," ","c","o","n","t","e","x","t",":">>
UserAsked == <<"U","s","e","r"," ","a","s","k","e","d",":"," ">>
YouResponded == <<"Y","o","u"," ","r","e","s","p","o","n","d","e","d",":"," ">>
RelevantInformation == <<"\n","R","e","l","e","v","a","n","t"," ","i","n","f","o","r","m","a","t","i","o","n",":"," ">>
Ellipsis == <<".",".",".">>
NoPreviousContext == <<"N","o"," ","p","r","e","v","i","o","u","s"," ","c","o","n","t","e","x","t">>

\* Python  "\n".join(parts)
RECURSIVE JoinNewline(_)
JoinNewline(parts) ==
    IF Len(parts) = 0 THEN <<>>
    ELSE IF Len(parts) = 1 THEN parts[1]
    ELSE parts[1] \o <<"\n">> \o JoinNewline(Tail(parts))

\* The two lines process_query_stream adds for each of the last 3 exchanges
RECURSIVE ExchangeParts(_)
ExchangeParts(exchanges) ==
    IF Len(exchanges) = 0 THEN <<>>
    ELSE << UserAsked \o exchanges[1].question,
            YouResponded \o Take(exchanges[1].answer, ContextAnswerCut) \o Ellipsis >>
         \o ExchangeParts(Tail(exchanges))

\* process_query_stream: context_parts
ContextParts(history, query_type, docs) ==
    ( IF Len(history) > 0
      THEN <<ContextHeader>> \o ExchangeParts(LastN(history, 3))
      ELSE <<>> )
    \o ( IF query_type = "retrieval" /\ Len(docs) > 0 /\ Len(docs[1].content) > 0
         THEN << RelevantInformation \o Take(docs[1].content, ContextDocCut) \o Ellipsis >>
         ELSE <<>> )

\* process_query_stream: context
BuildContext(history, query_type, docs) ==
    LET context_parts == ContextParts(history, query_type, docs)
    IN  IF Len(context_parts) > 0 THEN JoinNewline(context_parts) ELSE NoPreviousContext

\* The longest context the cuts allow when the questions take no room: the
\* header, 3 exchanges with answers of ContextAnswerCut characters, one
\* document of ContextDocCut characters, and the 7 line breaks between them
ContextBudget ==
    Len(ContextHeader)
    + 3 * (Len(UserAsked) + Len(YouResponded) + ContextAnswerCut + Len(Ellipsis))
    + Len(RelevantInformation) + ContextDocCut + Len(Ellipsis) + 7

\* Variant of BeginGenerate that does not wait for retrieval and analysis
\* (the event order of C9 depends on the routing)
BeginGenerateUnrouted(r) ==
    /\ runs[r].pc \in {"classified", "analyzed"}
    /\ runs' = [runs EXCEPT ![r].pc = "generating",
                            ![r].prompt_history =
                                Get(conversation_memory, runs[r].conversation_id),
                            ![r].events = Append(@, StepEvent("ResponseGenerator",
                                                              "in_progress", 800))]
    /\ UNCHANGED <<collections, ret, fast_requests, collection, conversation_memory,
                   session_metadata, fast_memory, now, fast_runs, requests, appended>>

\* The prompt is built and the ResponseGenerator step event is yielded
BeginGenerate(r) ==
    /\ \/ runs[r].pc = "classified" /\ runs[r].query_type # "retrieval"
       \/ runs[r].pc = "analyzed"
    /\ runs' = [runs EXCEPT ![r].pc = "generating",
                            ![r].prompt_history =
                                Get(conversation_memory, runs[r].conversation_id),
                            ![r].events = Append(@, StepEvent("ResponseGenerator",
                                                              "in_progress", 800))]
    /\ UNCHANGED <<collections, ret, fast_requests, collection, conversation_memory, session_metadata, fast_memory, now,
                   fast_runs, requests, appended>>

\* conversation_memory.setdefault(conversation_id, []).append(turn)
AppendTurn(mem, conversation_id, turn) ==
    Put(mem, conversation_id, Append(Get(mem, conversation_id), turn))

\* Variant of KeepLast that never trims (bounded memory, C1, depends on the trim)
KeepAll(mem, conversation_id, keep) == mem

\* Variant of KeepLast that keeps the oldest exchanges (FIFO retention, C2,
\* depends on which end is dropped)
KeepFirst(mem, conversation_id, keep) ==
    IF Len(mem[conversation_id]) > keep
    THEN [mem EXCEPT ![conversation_id] = Take(@, keep)]
    ELSE mem

\* if len(memory[id]) > keep: memory[id] = memory[id][-keep:]
KeepLast(mem, conversation_id, keep) ==
    IF Len(mem[conversation_id]) > keep
    THEN [mem EXCEPT ![conversation_id] = LastN(@, keep)]
    ELSE mem

\* "Save to memory" and "Keep only last 10 exchanges" of process_query_stream
SaveToMemory(mem, conversation_id, turn) ==
    KeepLast(AppendTurn(mem, conversation_id, turn), conversation_id, StreamKeep)

\* Variant of StreamTurn that stores the whole answer (the stored answer of
\* C8 depends on the cut)
StreamTurnUntruncated(run, t) ==
    [question   |-> run.question,
     answer     |-> run.full_response,
     query_type |-> run.query_type,
     timestamp  |-> t,
     rid        |-> run.rid]

\* The exchange process_query_stream stores.  rid is a history field: the
\* request that produced the turn.
StreamTurn(run, t) ==
    [question   |-> run.question,
     answer     |-> Take(run.full_response, AnswerLimit),
     query_type |-> run.query_type,
     timestamp  |-> t,
     rid        |-> run.rid]

\* stream_response yields one more chunk of text; process_query_stream adds it
\* to full_response and yields the token event
Token(r, token, max_tokens) ==
    /\ runs[r].pc = "generating"
    /\ ~runs[r].stream_over
    /\ runs[r].ntokens < max_tokens
    /\ runs' = [runs EXCEPT ![r].full_response = @ \o token,
                            ![r].ntokens = @ + 1,
                            ![r].events = Append(@, TokenEvent(token,
                                                   runs[r].full_response \o token))]
    /\ UNCHANGED <<collections, ret, fast_requests, collection, conversation_memory, session_metadata, fast_memory, now,
                   fast_runs, requests, appended>>

\* The model call fails (or times out): stream_response catches the exception
\* and yields the text "Error: ..." as one more chunk, then ends
GenFail(r) ==
    /\ runs[r].pc = "generating"
    /\ ~runs[r].stream_over
    /\ runs' = [runs EXCEPT ![r].full_response = @ \o ErrorText,
                            ![r].stream_over = TRUE,
                            ![r].events = Append(@, TokenEvent(ErrorText,
                                                   runs[r].full_response \o ErrorText))]
    /\ UNCHANGED <<collections, ret, fast_requests, collection, conversation_memory, session_metadata, fast_memory, now,
                   fast_runs, requests, appended>>

\* Variant of TokenFault in which the run goes on after the error event (the
\* single terminal event of C6 depends on the handler ending the run)
TokenFaultResumes(r) ==
    /\ runs[r].pc = "generating"
    /\ ~runs[r].stream_over
    /\ runs' = [runs EXCEPT ![r].events = Append(@, ErrorEvent)]
    /\ UNCHANGED <<collections, ret, fast_requests, collection, conversation_memory,
                   session_metadata, fast_memory, now, fast_runs, requests, appended>>

\* The model yields a chunk whose content is not a string (a list of parts):
\* full_response += token raises TypeError, caught by process_query_stream's
\* except clause, which yields the error event
TokenFault(r) ==
    /\ runs[r].pc = "generating"
    /\ ~runs[r].stream_over
    /\ runs' = [runs EXCEPT ![r].pc = "done",
                            ![r].events = Append(@, ErrorEvent)]
    /\ UNCHANGED <<collections, ret, fast_requests, collection, conversation_memory, session_metadata, fast_memory, now,
                   fast_runs, requests, appended>>

\* Variant of StreamEnd that writes back the history the run read when it was
\* classified, extended by its own turn (C33 depends on the append working on
\* the stored list as it is when the stream ends)
StreamEndFromSnapshot(r) ==
    LET run  == runs[r]
        turn == StreamTurn(run, now)
    IN  /\ run.pc = "generating"
        /\ conversation_memory' =
               Put(conversation_memory, run.conversation_id,
                   LastN(Append(run.seen_history, turn), StreamKeep))
        /\ appended' = AppendTurn(appended, run.conversation_id, turn)
        /\ runs' = [runs EXCEPT ![r].pc = "done",
                                ![r].persisted = @ + 1,
                                ![r].persisted_at = Len(run.events),
                                ![r].events = Append(@, CompleteEvent)]
        /\ UNCHANGED <<collections, ret, fast_requests, collection, session_metadata,
                       fast_memory, now, fast_runs, requests>>

\* The stream ends: the exchange is saved, the memory trimmed and the complete
\* event yielded
StreamEnd(r) ==
    LET run  == runs[r]
        turn == StreamTurn(run, now)
    IN  /\ run.pc = "generating"
        /\ conversation_memory' = SaveToMemory(conversation_memory, run.conversation_id, turn)
        /\ appended' = AppendTurn(appended, run.conversation_id, turn)
        /\ runs' = [runs EXCEPT ![r].pc = "done",
                                ![r].persisted = @ + 1,
                                ![r].persisted_at = Len(run.events),
                                ![r].events = Append(@, CompleteEvent)]
        /\ UNCHANGED <<collections, ret, fast_requests, collection, session_metadata, fast_memory, now, fast_runs, requests>>

\* Variant of Cancel in which closing the generator saves what was streamed,
\* as a finally block would (C10 depends on no handler running)
CancelSavesPartial(r) ==
    LET turn == StreamTurn(runs[r], now)
    IN  /\ runs[r].pc \in {"received", "classified", "retrieving", "retrieved", "analyzed",
                        "generating"}
        /\ runs' = [runs EXCEPT ![r].pc = "cancelled"]
        /\ conversation_memory' =
               SaveToMemory(conversation_memory, runs[r].conversation_id, turn)
        /\ appended' = AppendTurn(appended, runs[r].conversation_id, turn)
        /\ UNCHANGED <<collections, ret, fast_requests, collection, session_metadata,
                       fast_memory, now, fast_runs, requests>>

\* The caller disconnects: the generator is closed (GeneratorExit) or its task
\* cancelled (CancelledError); neither is an Exception, so no handler runs
Cancel(r) ==
    /\ runs[r].pc \in {"received", "classified", "retrieving", "retrieved", "analyzed",
                        "generating"}
    /\ runs' = [runs EXCEPT ![r].pc = "cancelled"]
    /\ UNCHANGED <<collections, ret, fast_requests, collection, conversation_memory, session_metadata, fast_memory, now,
                   fast_runs, requests, appended>>

\* Variant of cleanup_old_sessions that forgets the sessions and keeps their
\* turns (C26 depends on both maps being cleaned)
CleanupKeepsTurns(max_age_hours) ==
    LET cutoff_time == now - max_age_hours
        sessions_to_remove ==
            { id \in DOMAIN session_metadata :
                  session_metadata[id].last_active < cutoff_time }
    IN  /\ session_metadata' = Drop(session_metadata, sessions_to_remove)
        /\ UNCHANGED <<collections, ret, fast_requests, collection, conversation_memory,
                       appended, fast_memory, now, runs, fast_runs, requests>>

\* cleanup_old_sessions(max_age_hours), called by POST /session/cleanup
cleanup_old_sessions(max_age_hours) ==
    LET cutoff_time == now - max_age_hours
        sessions_to_remove ==
            { id \in DOMAIN session_metadata :
                  session_metadata[id].last_active < cutoff_time }
    IN  /\ conversation_memory' = Drop(conversation_memory, sessions_to_remove)
        /\ session_metadata' = Drop(session_metadata, sessions_to_remove)
        /\ appended' = Drop(appended, sessions_to_remove)
        /\ UNCHANGED <<collections, ret, fast_requests, collection, fast_memory, now, runs, fast_runs, requests>>

\* DELETE /memory/cache: conversation_memory.clear() on the streaming agent
clear_memory_cache ==
    /\ conversation_memory' = <<>>
    /\ appended' = <<>>
    /\ UNCHANGED <<collections, ret, fast_requests, collection, session_metadata, fast_memory, now, runs, fast_runs,
                   requests>>

\* time.time() advances
Tick(max_time) ==
    /\ now < max_time
    /\ now' = now + 1
    /\ UNCHANGED <<collections, ret, fast_requests, collection, conversation_memory, session_metadata, fast_memory, runs,
                   fast_runs, requests, appended>>

\* ChromaVectorStore.add_document_from_file is called on the pipeline's index
\* with a text file that belongs to organization owner
AddDocumentFromFile(owner, filename, text, max_indexed) ==
    /\ Len(add_document_from_file(collection, owner, filename, text)) <= max_indexed
    /\ collection' = add_document_from_file(collection, owner, filename, text)
    /\ UNCHANGED <<collections, ret, fast_requests, conversation_memory, session_metadata, fast_memory, now, runs,
                   fast_runs, requests, appended>>

----------------------------------------------------------------------------
(* FastInsightFlowAgent: POST /query *)

FastKeep        == 10     \* generate_response keeps the last 10 exchanges
FastAnswerLimit == 800    \* generate_response stores  final_response[:800]

FastRuns == {"f1"}                    \* process_query calls that can be in flight

IdleFast == [pc |-> "idle", question |-> <<>>, conversation_id |-> "",
             query_type |-> "", steps |-> <<>>, response |-> <<>>]

\* f"I apologize, but I encountered an error: {str(e)}"
Apology == <<"I"," ","a","p","o","l","o","g","i","z","e",","," ","b","u","t"," ","I"," ","e","n","c","o","u","n","t","e","r","e","d"," ","a","n"," ","e","r","r","o","r",":"," ","t","i","m","e","o","u","t">>

\* FastInsightFlowAgent.classify_query: the query type
FastQueryType(question, history) ==
    LET question_lower == Lower(question)
        combined_text  == question_lower \o <<" ">> \o ClassifyContext(history)
    IN  IF AnyIn(FastRetrievalKeywords, combined_text) THEN "retrieval"
        ELSE IF AnyIn(FastToolKeywords, combined_text) THEN "tool_use"
        ELSE IF WordCount(question) <= 3 /\ Len(history) > 0
             THEN IF AnyIn(ContextKeywords, Lower(history[Len(history)].question))
                  THEN "retrieval" ELSE "direct"
             ELSE "direct"

\* POST /query: process_query starts the graph
FastReceive(f, question, conversation_id, max_requests) ==
    /\ fast_runs[f].pc \in {"idle", "done"}
    /\ requests + fast_requests < max_requests
    /\ fast_requests' = fast_requests + 1
    /\ fast_runs' = [fast_runs EXCEPT ![f] = [IdleFast EXCEPT !.pc = "received",
                                                            !.question = question,
                                                            !.conversation_id = conversation_id]]
    /\ UNCHANGED <<collections, ret, requests, collection, conversation_memory, session_metadata, fast_memory, now,
                   runs, appended>>

\* The classify_query node
FastClassify(f) ==
    LET run == fast_runs[f]
    IN  /\ run.pc = "received"
        /\ fast_runs' = [fast_runs EXCEPT
                 ![f].pc = "classified",
                 ![f].query_type = FastQueryType(run.question,
                                                 Get(fast_memory, run.conversation_id)),
                 ![f].steps = Append(@, [node |-> "QueryClassifier",
                                         status |-> "completed", error |-> <<>>])]
        /\ UNCHANGED <<collections, ret, fast_requests, collection, conversation_memory, session_metadata, fast_memory,
                       now, runs, requests, appended>>

\* The nodes between classification and generation: retrieve_documents and
\* analyze_context, or use_tools.  ok: the executor call did not raise.
FastRoute(f, ok) ==
    LET run    == fast_runs[f]
        status == IF ok THEN "completed" ELSE "error"
        error  == IF ok THEN <<>> ELSE ExecutorError
        added  == IF run.query_type = "retrieval"
                  THEN << [node |-> "DocumentRetriever", status |-> status, error |-> error],
                          [node |-> "ContextAnalyzer", status |-> "completed", error |-> <<>>] >>
                  ELSE << [node |-> "ToolUser", status |-> status, error |-> error] >>
    IN  /\ run.pc = "classified"
        /\ run.query_type \in {"retrieval", "tool_use"}
        /\ fast_runs' = [fast_runs EXCEPT ![f].pc = "routed",
                                          ![f].steps = @ \o added]
        /\ UNCHANGED <<collections, ret, fast_requests, collection, conversation_memory, session_metadata, fast_memory,
                       now, runs, requests, appended>>

\* f"I apologize, but I encountered an error: {str(e)}"
Apologize(error) ==
    <<"I"," ","a","p","o","l","o","g","i","z","e",","," ","b","u","t"," ","I"," ","e","n","c","o","u","n","t","e","r","e","d"," ","a","n"," ","e","r","r","o","r",":"," ">> \o error

\* str(e) of the AttributeError raised by  final_response.split()  when
\* response.content is a list of parts
ListHasNoSplit ==
    <<"'","l","i","s","t","'"," ","o","b","j","e","c","t"," ","h","a","s"," ","n","o"," ","a","t","t","r","i","b","u","t","e"," ","'","s","p","l","i","t","'">>

\* What llm.ainvoke can do: return a message whose content is a string, raise,
\* or return a message whose content is a list of parts (langchain types
\* content as  str | list)
LlmOutcomes == {"str_content", "raised", "list_content"}

\* The generate_response node and the return of process_query.
\* outcome "str_content": llm.ainvoke returned final_response;
\* "raised": it raised, nothing after it in the try block ran;
\* "list_content": it returned [final_response]; the turn is appended and
\* trimmed, then  final_response.split()  raises inside the same try block.
FastGenerate(f, outcome, final_response) ==
    LET run     == fast_runs[f]
        content == IF outcome = "list_content" THEN <<final_response>> ELSE final_response
        turn == [question   |-> run.question,
                 answer     |-> Take(content, FastAnswerLimit),
                 query_type |-> run.query_type,
                 timestamp  |-> now]
    IN  /\ \/ run.pc = "classified" /\ run.query_type = "direct"
           \/ run.pc = "routed"
        /\ fast_memory' = IF outcome = "raised"
                          THEN fast_memory
                          ELSE KeepLast(AppendTurn(fast_memory, run.conversation_id, turn),
                                        run.conversation_id, FastKeep)
        /\ fast_runs' = [fast_runs EXCEPT
                 ![f].pc = "done",
                 ![f].response = CASE outcome = "str_content"  -> final_response
                                   [] outcome = "raised"       -> Apology
                                   [] outcome = "list_content" -> Apologize(ListHasNoSplit),
                 ![f].steps = Append(@, [node |-> "ResponseGenerator",
                                         status |-> IF outcome = "str_content"
                                                    THEN "completed" ELSE "error",
                                         error |-> CASE outcome = "str_content"  -> <<>>
                                                     [] outcome = "raised"       -> Timeout
                                                     [] outcome = "list_content" -> ListHasNoSplit])]
        /\ UNCHANGED <<collections, ret, fast_requests, collection, conversation_memory, session_metadata, now, runs,
                       requests, appended>>

----------------------------------------------------------------------------
(* Specifications *)

InitStoreVars ==
    /\ collections = <<>>
    /\ ret = NoCall

InitPipeVars ==
    /\ collection = <<>>
    /\ conversation_memory = <<>>
    /\ session_metadata = <<>>
    /\ fast_memory = <<>>
    /\ now = 0
    /\ runs = [r \in Runs |-> IdleRun]
    /\ fast_runs = [f \in FastRuns |-> IdleFast]
    /\ requests = 0
    /\ fast_requests = 0
    /\ appended = <<>>

InitStore == InitStoreVars /\ InitPipeVars

NextStore ==
    \/ AddDocuments
    \/ Search
    \/ DeleteDocument
    \/ ClearOrganizationData

SpecStore == InitStore /\ [][NextStore]_vars

\* Inputs of the streaming pipeline: organization A asks a tax question in its
\* conversation, organization B greets in its own
Requests ==
    { [question |-> Q_tax,   conversation_id |-> "c1", caller |-> OrgA],
      [question |-> Q_hello, conversation_id |-> "c2", caller |-> OrgB] }
Uploads == { [owner |-> OrgA, text |-> T_tax], [owner |-> OrgB, text |-> T_gst] }
\* The chunks the model streams: a long one, then a short one, and so on
ShortToken == <<"o","k">>
LongLen == 799
LongToken == [i \in 1..LongLen |-> "x"]
Chunk(i) == IF i % 2 = 1 THEN LongToken ELSE ShortToken

MaxRequests == 2       \* requests received in one behaviour
MaxTokens == 2         \* chunks the model streams for one answer
MaxIndexed == 1        \* chunks in the pipeline's index

Init == InitStoreVars /\ InitPipeVars

Next ==
    \/ \E r \in Runs, q \in Requests :
           Receive(r, q.question, q.conversation_id, q.caller, MaxRequests)
    \/ \E r \in Runs : Classify(r)
    \/ \E r \in Runs, outcome \in {"ok", "embed_error", "executor_error"} :
           Retrieve(r, outcome)
    \/ \E r \in Runs : Analyze(r)
    \/ \E r \in Runs : BeginGenerate(r)
    \/ \E r \in Runs : Token(r, Chunk(runs[r].ntokens + 1), MaxTokens)
    \/ \E r \in Runs : GenFail(r)
    \/ \E r \in Runs : TokenFault(r)
    \/ \E r \in Runs : StreamEnd(r)
    \/ \E r \in Runs : Cancel(r)
    \/ \E u \in Uploads : AddDocumentFromFile(u.owner, "notes.txt", u.text, MaxIndexed)

Spec == Init /\ [][Next]_vars

\* The memory lifecycle.  Conversation c1 of each agent is full: it holds the
\* exchanges of the last StreamKeep (FastKeep) requests, served one after the
\* other.  More requests arrive, on c1 and on a new conversation c2, with
\* session cleanup and cache clears in between.
MaxAgeHours == {0}
MemRequests == 2       \* requests received in one behaviour
MemTokens == 1         \* chunks the model streams for one answer
MaxTime == 1           \* clock readings

EarlierTurn(i) ==
    [question |-> Q_hello, answer |-> ShortToken, query_type |-> "direct",
     timestamp |-> 0, rid |-> i]

EarlierFastTurn(i) ==
    [question |-> Q_tax, answer |-> ShortToken, query_type |-> "retrieval",
     timestamp |-> 0]

InitMemory ==
    /\ InitStoreVars
    /\ collection = <<>>
    /\ conversation_memory = [id \in {"c1"} |-> [i \in 1..StreamKeep |-> EarlierTurn(i)]]
    /\ appended = conversation_memory
    /\ session_metadata =
           [id \in {"c1"} |-> [created_at |-> 0, last_active |-> 0, message_count |-> 0]]
    /\ fast_memory = [id \in {"c1"} |-> [i \in 1..FastKeep |-> EarlierFastTurn(i)]]
    /\ now = 0
    /\ runs = [r \in Runs |-> IdleRun]
    /\ fast_runs = [f \in FastRuns |-> IdleFast]
    /\ requests = StreamKeep
    /\ fast_requests = FastKeep

NextMemory ==
    \/ \E r \in Runs, id \in {"c1", "c2"} :
           Receive(r, Q_hello, id, OrgA, StreamKeep + FastKeep + MemRequests)
    \/ \E r \in Runs : Classify(r)
    \/ \E r \in Runs : BeginGenerate(r)
    \/ \E r \in Runs : Token(r, ShortToken, MemTokens)
    \/ \E r \in Runs : StreamEnd(r)
    \/ \E r \in Runs : Cancel(r)
    \/ \E h \in MaxAgeHours : cleanup_old_sessions(h)
    \/ clear_memory_cache
    \/ Tick(MaxTime)
    \/ \E f \in FastRuns :
           FastReceive(f, Q_tax, "c1", StreamKeep + FastKeep + MemRequests)
    \/ \E f \in FastRuns : FastClassify(f)
    \/ \E f \in FastRuns, ok \in BOOLEAN : FastRoute(f, ok)
    \/ \E f \in FastRuns, outcome \in LlmOutcomes : FastGenerate(f, outcome, ShortToken)

SpecMemory == InitMemory /\ [][NextMemory]_vars

\* Progress of the streaming pipeline.  The event loop keeps resuming a
\* generator whose awaited call has returned or raised, and the model client
\* gives up after its timeout (ChatGoogleGenerativeAI(timeout=30,
\* max_retries=2)), so every step of a run that can be taken is eventually
\* taken.  The caller is not obliged to send requests or to disconnect.
LiveRequests == 2      \* requests received in one behaviour
LiveTokens == 1        \* chunks the model streams for one answer

NextLive ==
    \/ \E r \in Runs, q \in Requests :
           Receive(r, q.question, q.conversation_id, q.caller, LiveRequests)
    \/ \E r \in Runs : Classify(r)
    \/ \E r \in Runs, outcome \in {"ok", "embed_error", "executor_error"} :
           Retrieve(r, outcome)
    \/ \E r \in Runs : RetrieveNoResponse(r)
    \/ \E r \in Runs : Analyze(r)
    \/ \E r \in Runs : BeginGenerate(r)
    \/ \E r \in Runs : Token(r, ShortToken, LiveTokens)
    \/ \E r \in Runs : GenFail(r)
    \/ \E r \in Runs : TokenFault(r)
    \/ \E r \in Runs : StreamEnd(r)
    \/ \E r \in Runs : Cancel(r)

\* One step of the generator of run r
RunStep(r) ==
    \/ Classify(r)
    \/ \E outcome \in {"ok", "embed_error", "executor_error"} : Retrieve(r, outcome)
    \/ RetrieveNoResponse(r)
    \/ Analyze(r)
    \/ BeginGenerate(r)
    \/ Token(r, ShortToken, LiveTokens)
    \/ GenFail(r)
    \/ TokenFault(r)
    \/ StreamEnd(r)

SpecLive == Init /\ [][NextLive]_vars /\ \A r \in Runs : WF_vars(RunStep(r))

\* Classification.  Session c1 holds the exchanges of earlier requests, as
\* process_query_stream stored them: the route of each exchange is the one
\* classify_query gave its question on the exchanges before it.  Requests with
\* greetings, domain questions, follow-ups and small talk arrive on c1 and on
\* a second session.
Q_hello_tax == <<"h","e","l","l","o"," ","w","h","a","t"," ","i","s"," ","t","a","x">>
Q_gst == <<"D","o"," ","I"," ","c","h","a","r","g","e"," ","G","S","T">>
Q_threshold == <<"w","h","a","t"," ","i","s"," ","t","h","e"," ","G","S","T"," ","r","e","g","i","s","t","r","a","t","i","o","n"," ","t","h","r","e","s","h","o","l","d">>
Q_story == <<"t","e","l","l"," ","m","e"," ","a"," ","f","u","n","n","y"," ","s","t","o","r","y">>
Q_nice == <<"n","i","c","e"," ","d","a","y">>
A_due == <<"t","a","x"," ","i","s"," ","d","u","e">>

ClassifyQuestions == {Q_hello, Q_hello_tax, Q_tax, Q_gst, Q_threshold, Q_after, Q_story}
ClassifyRequestSet ==
    { [question |-> q, conversation_id |-> "c1"] : q \in ClassifyQuestions }
        \cup { [question |-> Q_hello, conversation_id |-> "c2"] }

\* The exchanges a session holds after the given questions were asked and
\* answered one after the other
RECURSIVE HistoryOf(_)
HistoryOf(asked) ==
    IF Len(asked) = 0 THEN <<>>
    ELSE LET earlier == HistoryOf(Take(asked, Len(asked) - 1))
             last    == asked[Len(asked)]
         IN  Append(earlier,
                    [question   |-> last.question,
                     answer     |-> Take(last.answer, AnswerLimit),
                     query_type |-> QueryType(last.question, earlier),
                     timestamp  |-> 0,
                     rid        |-> Len(asked)])

AskedTax == [question |-> Q_tax, answer |-> ShortToken]
AskedAfter == [question |-> Q_after, answer |-> ShortToken]
AskedNice == [question |-> Q_nice, answer |-> ShortToken]
AskedNiceDue == [question |-> Q_nice, answer |-> A_due]

Histories ==
    { HistoryOf(<<>>),
      HistoryOf(<<AskedTax>>),
      HistoryOf(<<AskedNice>>),
      HistoryOf(<<AskedNiceDue>>),
      HistoryOf(<<AskedTax, AskedNice>>),
      HistoryOf(<<AskedTax, AskedAfter, AskedAfter, AskedAfter>>),
      HistoryOf(<<AskedNice, AskedAfter, AskedAfter, AskedAfter>>) }

MaxHistory == 4        \* requests served before the behaviour starts
ClassifyRequests == 2  \* requests received in one behaviour
ClassifyTokens == 1    \* chunks the model streams for one answer

InitClassify ==
    /\ InitStoreVars
    /\ now = 0
    /\ collection = <<>>
    /\ \E h \in Histories :
           conversation_memory = IF h = <<>> THEN <<>> ELSE [id \in {"c1"} |-> h]
    /\ appended = conversation_memory
    /\ session_metadata =
           [id \in DOMAIN conversation_memory |->
                [created_at |-> 0, last_active |-> 0, message_count |-> 0]]
    /\ fast_memory = <<>>
    /\ runs = [r \in Runs |-> IdleRun]
    /\ fast_runs = [f \in FastRuns |-> IdleFast]
    /\ requests = MaxHistory
    /\ fast_requests = 0

NextClassify ==
    \/ \E r \in Runs, q \in ClassifyRequestSet :
           Receive(r, q.question, q.conversation_id, OrgA, MaxHistory + ClassifyRequests)
    \/ \E r \in Runs : Classify(r)
    \/ \E r \in Runs : BeginGenerate(r)
    \/ \E r \in Runs : Token(r, ShortToken, ClassifyTokens)
    \/ \E r \in Runs : StreamEnd(r)
    \/ \E r \in Runs : Cancel(r)
    \/ Tick(MaxTime)

SpecClassify == InitClassify /\ [][NextClassify]_vars

\* Overlapping requests on one conversation.  Two connections send requests
\* with the same conversation id; the generators take turns at their yields
\* and awaits.  The index holds a file on the subject of the question or one
\* on an unrelated subject.
\* A question of one long word (the request model puts no limit on its length)
LongQuestion == [i \in 1..ContextBudget + 1 |-> "x"]
OverlapQuestions == {Q_tax, Q_hello, LongQuestion}
OverlapUploads == { [owner |-> OrgA, text |-> T_tax], [owner |-> OrgA, text |-> T_menu] }
OverlapRequests == 2   \* requests received in one behaviour
OverlapTokens == 1     \* chunks the model streams for one answer

NextOverlap ==
    \/ \E r \in Runs, q \in OverlapQuestions : Receive(r, q, "c1", OrgA, OverlapRequests)
    \/ \E r \in Runs : Classify(r)
    \/ \E r \in Runs : Retrieve(r, "ok")
    \/ \E r \in Runs : Analyze(r)
    \/ \E r \in Runs : BeginGenerate(r)
    \/ \E r \in Runs : Token(r, ShortToken, OverlapTokens)
    \/ \E r \in Runs : StreamEnd(r)
    \/ \E u \in OverlapUploads :
           AddDocumentFromFile(u.owner, "notes.txt", u.text, MaxIndexed)

SpecOverlap == Init /\ [][NextOverlap]_vars

----------------------------------------------------------------------------
(* Properties of the streaming pipeline, checked under Spec *)

\* The positions of a run's events of the given types
EventsOfType(run, types) == { i \in DOMAIN run.events : run.events[i].type \in types }

Terminal == {"complete", "error"}

\* The step events of a run that name the given node
StepsOf(run, node) ==
    { i \in DOMAIN run.events : run.events[i].type = "step" /\ run.events[i].node = node }

\* The text of a run's token events, in the order emitted
RECURSIVE ConcatTokens(_)
ConcatTokens(events) ==
    IF Len(events) = 0 THEN <<>>
    ELSE (IF Head(events).type = "token" THEN Head(events).content ELSE <<>>)
         \o ConcatTokens(Tail(events))

\* The turns a run has left in a memory
TurnsOf(mem, run) ==
    { <<id, i>> \in UNION { {id} \X DOMAIN mem[id] : id \in DOMAIN mem } :
          mem[id][i].rid = run.rid }

InFlight == {"received", "classified", "retrieving", "retrieved", "analyzed", "generating"}

\* C5: the passages a run retrieves belong to the organization on whose behalf
\* the run is made, so documents of other organizations cannot change them.
C5_RetrievalScopedToCaller ==
    \A r \in Runs :
        \A i \in DOMAIN runs[r].retrieved_docs :
            runs[r].retrieved_docs[i].owner = runs[r].caller

\* C6: a run that is over and was not cancelled has emitted exactly one
\* terminal event (complete or error), as its last event; a run still in
\* flight, or cancelled, has emitted none.
C6_OneTerminalEventLast ==
    \A r \in Runs :
        /\ runs[r].pc = "done" =>
               EventsOfType(runs[r], Terminal) = { Len(runs[r].events) }
        /\ runs[r].pc # "done" => EventsOfType(runs[r], Terminal) = {}

\* C6 witness: one run ended with an error event after a token, another with
\* complete after the retrieval route.
C6_Witness ==
    \E r1, r2 \in Runs :
        /\ runs[r1].pc = "done" /\ runs[r1].events[Len(runs[r1].events)].type = "error"
        /\ runs[r1].ntokens > 0
        /\ runs[r2].pc = "done" /\ runs[r2].events[Len(runs[r2].events)].type = "complete"
        /\ runs[r2].query_type = "retrieval"

\* C7: a run whose generation stream failed appends no turn and ends with an
\* error event.
C7_FailedGenerationPersistsNothing ==
    \A r \in Runs :
        runs[r].pc = "done" /\ runs[r].stream_over =>
            /\ runs[r].persisted = 0
            /\ TurnsOf(appended, runs[r]) = {}
            /\ runs[r].events[Len(runs[r].events)].type = "error"

\* C8: a run that ended with complete has appended exactly one turn, to the
\* session named by its conversation_id, after its last token event and just
\* before the complete event; the stored answer is the concatenation of the
\* emitted tokens cut to AnswerLimit characters.  A run in flight has appended
\* nothing.
C8_OneAppendAfterLastToken ==
    \A r \in Runs :
        LET run == runs[r]
        IN  /\ run.pc \in InFlight => run.persisted = 0 /\ TurnsOf(appended, run) = {}
            /\ run.pc = "done" /\ run.events[Len(run.events)].type = "complete" =>
                   /\ run.persisted = 1
                   /\ \E i \in DOMAIN appended[run.conversation_id] :
                          /\ TurnsOf(appended, run) = { <<run.conversation_id, i>> }
                          /\ appended[run.conversation_id][i].answer =
                                 Take(ConcatTokens(run.events), AnswerLimit)
                          /\ appended[run.conversation_id][i].question = run.question
                   /\ run.persisted_at = Len(run.events) - 1
                   /\ \A i \in EventsOfType(run, {"token"}) : i <= run.persisted_at

\* C8 witness: a completed run whose answer was longer than AnswerLimit, so the
\* stored answer is a proper prefix of it.
C8_Witness ==
    \E r \in Runs :
        /\ runs[r].pc = "done" /\ runs[r].persisted = 1 /\ ~runs[r].stream_over
        /\ runs[r].ntokens = 2
        /\ Len(runs[r].full_response) > AnswerLimit
        /\ \E i \in DOMAIN appended[runs[r].conversation_id] :
               /\ appended[runs[r].conversation_id][i].rid = runs[r].rid
               /\ Len(appended[runs[r].conversation_id][i].answer) = AnswerLimit

\* C9: in every run the classification step event is the first event, every
\* step event precedes every token event, every token event precedes the
\* terminal event, and the retrieval and analysis step events are emitted if
\* and only if the route is retrieval.
C9_EventOrder ==
    \A r \in Runs :
        LET run    == runs[r]
            steps  == EventsOfType(run, {"step"})
            tokens == EventsOfType(run, {"token"})
            ends   == EventsOfType(run, Terminal)
        IN  /\ Len(run.events) > 0 => StepsOf(run, "QueryClassifier") = {1}
            /\ \A i \in steps, j \in tokens : i < j
            /\ \A i \in tokens, j \in ends : i < j
            /\ \A i \in steps, j \in ends : i < j
            /\ StepsOf(run, "DocumentRetriever") # {} => run.query_type = "retrieval"
            /\ StepsOf(run, "ContextAnalyzer") # {} => run.query_type = "retrieval"
            /\ StepsOf(run, "ResponseGenerator") # {} /\ run.query_type = "retrieval" =>
                   /\ Cardinality(StepsOf(run, "DocumentRetriever")) = 1
                   /\ Cardinality(StepsOf(run, "ContextAnalyzer")) = 1

\* C9 witness: a completed run on the retrieval route that streamed two tokens,
\* next to a completed run on the direct route.
C9_Witness ==
    \E r1, r2 \in Runs :
        /\ runs[r1].pc = "done" /\ runs[r1].query_type = "retrieval"
        /\ runs[r1].ntokens = 2
        /\ runs[r2].pc = "done" /\ runs[r2].query_type = "direct"
        /\ runs[r2].ntokens > 0

\* C10: a run whose caller disconnected before generation finished emits
\* nothing more (its record stays as it is until its connection serves another
\* request), has emitted no terminal event, and leaves no turn in any session.
C10_CancelledRunLeavesNothing ==
    /\ [](\A r \in Runs :
            runs[r].pc = "cancelled" =>
                /\ runs[r].persisted = 0
                /\ TurnsOf(appended, runs[r]) = {}
                /\ TurnsOf(conversation_memory, runs[r]) = {})
    /\ [][\A r \in Runs :
            runs[r].pc = "cancelled" =>
                runs'[r] = runs[r] \/ runs'[r].pc = "received"]_vars

\* C10 witness: a run cancelled in mid-stream, after a token, while another
\* run on the same conversation has completed.
C10_Witness ==
    \E r1, r2 \in Runs :
        /\ runs[r1].pc = "cancelled" /\ runs[r1].ntokens > 0
        /\ runs[r2].pc = "done" /\ runs[r2].persisted = 1
        /\ runs[r2].conversation_id = runs[r1].conversation_id

----------------------------------------------------------------------------
(* Properties of the conversation memories, checked under SpecMemory *)

\* C1: every session of either agent holds at most the capacity of its memory
\* (10 exchanges), whatever runs, cleanups and cache clears took place.
C1_BoundedMemory ==
    /\ \A id \in DOMAIN conversation_memory : Len(conversation_memory[id]) <= StreamKeep
    /\ \A id \in DOMAIN fast_memory : Len(fast_memory[id]) <= FastKeep

\* C1 witness: both sessions were full, each agent appended one more turn
\* and trimmed, and both sessions are full again.
C1_Witness ==
    /\ "c1" \in DOMAIN conversation_memory
    /\ Len(conversation_memory["c1"]) = StreamKeep
    /\ Len(appended["c1"]) > StreamKeep
    /\ Len(fast_memory["c1"]) = FastKeep
    /\ \E f \in FastRuns :
           /\ fast_runs[f].pc = "done" /\ fast_runs[f].response = ShortToken
           /\ fast_memory["c1"][FastKeep].timestamp = 1

\* C2: every streaming session holds exactly the last min(n, StreamKeep) of
\* the n turns appended to it, unaltered and in the order appended.
C2_FifoRetention ==
    /\ DOMAIN conversation_memory = DOMAIN appended
    /\ \A id \in DOMAIN conversation_memory :
           conversation_memory[id] = LastN(appended[id], StreamKeep)

\* C2 witness: more than StreamKeep turns were appended, the last two by
\* overlapping runs that finished in the opposite order to their arrival, and
\* the oldest turn is gone.
C2_Witness ==
    /\ "c1" \in DOMAIN appended
    /\ Len(appended["c1"]) > StreamKeep
    /\ \E i \in 1..(Len(appended["c1"]) - 1) :
           appended["c1"][i].rid > appended["c1"][i + 1].rid
    /\ conversation_memory["c1"][1] # appended["c1"][1]

----------------------------------------------------------------------------
(* Properties of the non-streaming agent, checked under SpecMemory *)

\* C11: when generation fails in a non-streaming run, process_query returns an
\* aggregate whose answer is the apologetic message, and the run leaves the
\* stored turns of every session of either agent exactly as they were.
C11_FailedGenerationLeavesMemory ==
    [][ \A f \in FastRuns :
          ( /\ fast_runs[f].pc # "done"
            /\ fast_runs'[f].pc = "done"
            /\ fast_runs'[f].steps[Len(fast_runs'[f].steps)].status = "error" ) =>
              /\ Take(fast_runs'[f].response, Len(Apologize(<<>>))) = Apologize(<<>>)
              /\ fast_runs'[f].conversation_id = fast_runs[f].conversation_id
              /\ fast_memory' = fast_memory
              /\ conversation_memory' = conversation_memory ]_vars

----------------------------------------------------------------------------
(* Degradation of the streaming pipeline, checked under Spec *)

RetrievalFailures == {"embed_error", "executor_error"}

\* The record retrieve_documents appended to state["steps"]
RetrievalStep(run) ==
    LET at == { i \in DOMAIN run.steps : run.steps[i].node = "DocumentRetriever" }
    IN  run.steps[CHOOSE i \in at : TRUE]

\* C12: when the retrieval call of a run has failed, the run holds no
\* retrieved document, its retrieval step is recorded with status error and
\* the error in its data, and a run that is over went through analysis and
\* generation and ended with a terminal event.
C12_RetrievalFailureRecorded ==
    \A r \in Runs :
        runs[r].retrieval \in RetrievalFailures =>
            /\ runs[r].retrieved_docs = <<>>
            /\ RetrievalStep(runs[r]).status = "error"
            /\ RetrievalStep(runs[r]).error # <<>>
            /\ runs[r].pc = "done" =>
                   /\ StepsOf(runs[r], "ContextAnalyzer") # {}
                   /\ StepsOf(runs[r], "ResponseGenerator") # {}
                   /\ EventsOfType(runs[r], Terminal) = { Len(runs[r].events) }

----------------------------------------------------------------------------
(* Termination of the streaming pipeline, checked under SpecLive *)

\* C13: every run that was received eventually emits a terminal event, even
\* when the retrieval call or the model never responds (a run whose caller
\* disconnected is excused).
C13_EveryRunTerminates ==
    \A r \in Runs :
        (runs[r].pc = "received") ~>
            (\/ runs[r].pc = "done" /\ EventsOfType(runs[r], Terminal) # {}
             \/ runs[r].pc = "cancelled")

----------------------------------------------------------------------------
(* Properties of the tenant store, checked under SpecStore *)

\* The namespace of an organization: the chunks of its collection (none when
\* the collection does not exist)
Namespace(colls, org_id) == Get(colls, get_collection_name(org_id))

\* C14: every add_documents call is all or nothing.  A call that reports
\* success has appended every chunk it announced to the organization's
\* namespace; a call that reports failure has left the namespace as it was;
\* in both cases every other collection is untouched.  Calls are synchronous,
\* so concurrent writers are interleavings of whole calls.
C14_AddIsAtomic ==
    [][ ret'.op = "add_documents" =>
          LET name   == get_collection_name(ret'.org_id)
              before == Namespace(collections, ret'.org_id)
              after  == Namespace(collections', ret'.org_id)
              added  == SubSeq(after, Len(before) + 1, Len(after))
          IN  /\ Take(after, Len(before)) = before
              /\ \A n \in DOMAIN collections \ {name} :
                     n \in DOMAIN collections' /\ collections'[n] = collections[n]
              /\ IF ret'.result.success
                 THEN /\ Len(added) = ret'.result.chunks_added
                      /\ Len(added) > 0
                      /\ \A i \in DOMAIN added :
                             /\ added[i].id = <<ret'.document_id, i - 1>>
                             /\ added[i].metadata.org_id = ret'.org_id
                 ELSE after = before ]_vars

\* C14 witness: an add_documents call failed on a namespace that already held
\* the chunk of an earlier document.
C14_Witness ==
    /\ ret.op = "add_documents"
    /\ ~ret.result.success
    /\ Len(Namespace(collections, ret.org_id)) = 1
    /\ ret.document_id \notin StoredDocIds(collections)

\* C15: a failed embedding step ends add_documents with an error raised to its
\* caller: no add_documents call returns a normal value that reports failure.
C15_EmbeddingErrorPropagates ==
    ret.op = "add_documents" =>
        ~("success" \in DOMAIN ret.result /\ ~ret.result.success)

\* a > b for two positive fractions
ScoreGt(a, b) == a[1] * b[2] > b[1] * a[2]

\* The position of a search result's chunk in its collection (insertion order)
InsertionRank(stored, r) ==
    CHOOSE p \in DOMAIN stored :
        /\ stored[p].metadata.document_id = r.metadata.document_id
        /\ stored[p].metadata.chunk_index = r.metadata.chunk_index

\* C16: search returns at most n_results results, by decreasing
\* similarity_score, and results of equal score in insertion order (the
\* earlier-added chunk first).
C16_SearchOrdered ==
    ret.op = "search" =>
        LET stored == Namespace(collections, ret.org_id)
        IN  /\ Len(ret.result) <= ret.n_results
            /\ \A i, j \in DOMAIN ret.result :
                   i < j =>
                       \/ ScoreGt(ret.result[i].similarity_score,
                                  ret.result[j].similarity_score)
                       \/ /\ ret.result[i].similarity_score = ret.result[j].similarity_score
                          /\ InsertionRank(stored, ret.result[i]) <
                                 InsertionRank(stored, ret.result[j])

\* C17: a search against an organization whose namespace holds no chunk (the
\* collection is empty or does not exist yet) returns the empty list, whatever
\* the query, n_results, threshold and the health of the embedding model are,
\* and leaves every stored chunk in place.
C17_EmptyNamespaceSearch ==
    [][ ( ret'.op = "search" /\ Namespace(collections, ret'.org_id) = <<>> ) =>
          /\ ret'.result = <<>>
          /\ \A n \in DOMAIN collections :
                 n \in DOMAIN collections' /\ collections'[n] = collections[n]
          /\ Namespace(collections', ret'.org_id) = <<>> ]_vars

\* C17 witness: a search with the largest n_results returned nothing for an
\* organization without chunks while another organization has chunks stored.
C17_Witness ==
    /\ ret.op = "search"
    /\ ret.n_results = MaxK
    /\ ret.result = <<>>
    /\ Namespace(collections, ret.org_id) = <<>>
    /\ StoredCount(collections) = MaxStored

\* C18: delete_document always reports success with the number of chunks the
\* document had in the namespace; when it had none the count is 0 and nothing
\* stored changes; after any delete the document has no chunk left, so a
\* second delete of the same document reports 0.
C18_DeleteMissingDocument ==
    [][ ret'.op = "delete_document" =>
          LET before == Namespace(collections, ret'.org_id)
              after  == Namespace(collections', ret'.org_id)
              hits   == SelectSeq(before,
                                  LAMBDA c : c.metadata.document_id = ret'.document_id)
          IN  /\ ret'.result.success
              /\ ret'.result.chunks_deleted = Len(hits)
              /\ hits = <<>> =>
                     /\ after = before
                     /\ \A n \in DOMAIN collections :
                            n \in DOMAIN collections' /\ collections'[n] = collections[n]
              /\ \A i \in DOMAIN after :
                     after[i].metadata.document_id # ret'.document_id ]_vars

\* C18 witness: a delete of a document without chunks reported 0 on a
\* namespace that holds chunks of another document.
C18_Witness ==
    /\ ret.op = "delete_document"
    /\ ret.result.success
    /\ ret.result.chunks_deleted = 0
    /\ Namespace(collections, ret.org_id) # <<>>
    /\ ret.document_id \notin StoredDocIds(collections)

\* "org_" + hashlib.md5(dash-less id).hexdigest()[:8] + "_docs" of the three
\* organization ids, computed outside the model
ExpectedNamespace(org_id) ==
    CASE org_id = OrgA -> <<"o","r","g","_","5","7","9","9","5","4","d","5","_","d","o","c","s">>
      [] org_id = OrgB -> <<"o","r","g","_","5","7","9","9","5","4","d","5","_","d","o","c","s">>
      [] org_id = OrgC -> <<"o","r","g","_","8","9","9","3","9","3","0","e","_","d","o","c","s">>

\* C19: the namespace of an organization is "org_" followed by the first 8 hex
\* digits of the MD5 of its dash-less id and "_docs", whatever is stored: the
\* collection every call works on, and every collection that exists, is the
\* one that name gives.
C19_NamespaceIsPureFunction ==
    /\ \A o \in OrgIds : get_collection_name(o) = ExpectedNamespace(o)
    /\ DOMAIN collections \subseteq { ExpectedNamespace(o) : o \in OrgIds }
    /\ ret.op \in {"add_documents", "search", "delete_document"} =>
           ExpectedNamespace(ret.org_id) \in DOMAIN collections
    /\ ret.op = "add_documents" /\ ret.result.success =>
           ret.result.collection_name = ExpectedNamespace(ret.org_id)
    /\ ret.op = "clear_organization_data" /\ ret.result.success =>
           ExpectedNamespace(ret.org_id) \notin DOMAIN collections

\* C19 witness: the same organization was named twice, by the add that created
\* its collection and by the later call that found it again, with other data
\* stored in between.
C19_Witness ==
    /\ ret.op = "delete_document"
    /\ ret.org_id = OrgC
    /\ ret.result.chunks_deleted = 1
    /\ DOMAIN collections = { ExpectedNamespace(OrgC), ExpectedNamespace(OrgA) }
    /\ collections[ExpectedNamespace(OrgA)] # <<>>

\* C20: distinct organizations have distinct namespaces, so the collection of
\* an organization holds only chunks added under that organization.
C20_NoNamespaceCollision ==
    /\ \A A, B \in OrgIds : A # B => get_collection_name(A) # get_collection_name(B)
    /\ \A o \in OrgIds :
           \A c \in Range(Namespace(collections, o)) : c.metadata.org_id = o

----------------------------------------------------------------------------
(* Properties of classify_query, checked under SpecClassify *)

\* The runs whose question classify_query has classified
Classified == { r \in Runs : runs[r].query_type # "" }

HasGreeting(question) == AnyIn(Greetings, Lower(question))

\* C23: a question that holds a greeting or closing phrase is routed direct,
\* whatever the history and whether or not it also holds domain vocabulary.
C23_GreetingIsDirect ==
    \A r \in Classified :
        HasGreeting(runs[r].question) => runs[r].query_type = "direct"

\* C23 witness: "hello" was classified direct against an empty history, and
\* "hello what is tax" was classified direct against a history of four turns
\* routed to retrieval.
C23_Witness ==
    \E r1 \in Classified, r2 \in Classified :
        /\ runs[r1].question = Q_hello /\ runs[r1].seen_history = <<>>
        /\ runs[r1].query_type = "direct"
        /\ runs[r2].question = Q_hello_tax
        /\ AnyIn(RetrievalKeywords, Lower(runs[r2].question))
        /\ Len(runs[r2].seen_history) = 4
        /\ \A i \in 1..4 : runs[r2].seen_history[i].query_type = "retrieval"
        /\ runs[r2].query_type = "direct"

\* The domain-lookup vocabulary: the terms of classify_query's keyword list,
\* whatever their case
DomainVocabulary == [k \in DOMAIN RetrievalKeywords |-> Lower(RetrievalKeywords[k])]

HasDomainVocabulary(question) == AnyIn(DomainVocabulary, Lower(question))

\* C24: a question that holds no greeting phrase and holds domain-lookup
\* vocabulary is routed to retrieval, whatever the history.
C24_DomainQuestionIsRetrieval ==
    \A r \in Classified :
        ( ~HasGreeting(runs[r].question) /\ HasDomainVocabulary(runs[r].question) ) =>
            runs[r].query_type = "retrieval"

\* C25: context carry-over.  A question of at most 3 words without greeting
\* and without domain vocabulary is routed to retrieval when the turn before
\* it was routed to retrieval, and direct when the question of the turn before
\* it held no domain vocabulary.
C25_ContextCarryOver ==
    \A r \in Classified :
        LET run      == runs[r]
            history  == run.seen_history
            previous == history[Len(history)]
        IN  ( /\ WordCount(run.question) <= 3
              /\ ~HasGreeting(run.question)
              /\ ~HasDomainVocabulary(run.question)
              /\ Len(history) > 0 ) =>
                /\ previous.query_type = "retrieval" => run.query_type = "retrieval"
                /\ ~HasDomainVocabulary(previous.question) => run.query_type = "direct"

\* C27: a question of more than 3 words without greeting and without domain
\* vocabulary is routed direct, whatever the history holds.
C27_LongPlainQuestionIsDirect ==
    \A r \in Classified :
        ( /\ WordCount(runs[r].question) > 3
          /\ ~HasGreeting(runs[r].question)
          /\ ~HasDomainVocabulary(runs[r].question) ) =>
            runs[r].query_type = "direct"

\* The step in which classify_query runs for some request
ClassifyStep == \E r \in Runs : runs[r].pc = "received" /\ runs'[r].pc = "classified"

\* C28: classification has no side effect on session state.  The step in
\* which classify_query runs leaves the session map (which sessions exist,
\* created_at, last_active, message_count) and the stored turns as they were.
C28_ClassifyLeavesSessions ==
    [][ ClassifyStep =>
            /\ session_metadata' = session_metadata
            /\ conversation_memory' = conversation_memory ]_vars

\* The two histories hold the same questions and answers in their last 3 turns
AgreeOnRecent(h1, h2) ==
    LET a == LastN(h1, 3)
        b == LastN(h2, 3)
    IN  /\ Len(a) = Len(b)
        /\ \A i \in 1..Len(a) :
               a[i].question = b[i].question /\ a[i].answer = b[i].answer

\* C29: classification depends on the history only through its 3 most recent
\* turns, and does not modify the history.  The route classify_query gives a
\* request is the route its question gets on every history that agrees with
\* the one read on the last 3 turns, and the step in which it runs leaves the
\* stored turns of every session as they were.
C29_OnlyRecentTurnsMatter ==
    [][ \A r \in Runs :
            ( runs[r].pc = "received" /\ runs'[r].pc = "classified" ) =>
                /\ conversation_memory' = conversation_memory
                /\ \A h \in Histories :
                       AgreeOnRecent(runs'[r].seen_history, h) =>
                           QueryType(runs'[r].question, h) = runs'[r].query_type ]_vars

\* C29 witness: a short follow-up was classified on a session of four turns
\* that opens with a domain question; another history agrees with it on the
\* last 3 turns and opens with small talk; the stored turns are the ones read.
C29_Witness ==
    \E r \in Classified, h \in Histories :
        /\ runs[r].question = Q_after
        /\ runs[r].pc = "classified"
        /\ Len(runs[r].seen_history) = 4 /\ Len(h) = 4
        /\ AgreeOnRecent(runs[r].seen_history, h)
        /\ HasDomainVocabulary(runs[r].seen_history[1].question)
        /\ ~HasDomainVocabulary(h[1].question)
        /\ Get(conversation_memory, runs[r].conversation_id) = runs[r].seen_history
        /\ QueryType(Q_after, h) = runs[r].query_type

----------------------------------------------------------------------------
(* Properties of the sessions, checked under SpecMemory and Spec *)

\* The sessions cleanup_old_sessions(max_age_hours) finds stale
Stale(max_age_hours) ==
    { id \in DOMAIN session_metadata :
          session_metadata[id].last_active < now - max_age_hours }

\* A step that takes sessions off the session map while no request moves
EvictStep ==
    /\ DOMAIN session_metadata' # DOMAIN session_metadata
    /\ DOMAIN session_metadata' \subseteq DOMAIN session_metadata
    /\ runs' = runs /\ fast_runs' = fast_runs /\ now' = now

\* C26: eviction removes every stale session together with its stored turns
\* and leaves every other session as it was, metadata and turns, also while
\* requests on those other sessions are under way.
C26_EvictStale ==
    [][ EvictStep =>
            \E h \in MaxAgeHours :
                /\ DOMAIN session_metadata' = DOMAIN session_metadata \ Stale(h)
                /\ \A id \in Stale(h) : id \notin DOMAIN conversation_memory'
                /\ \A id \in DOMAIN session_metadata \ Stale(h) :
                       /\ session_metadata'[id] = session_metadata[id]
                       /\ id \in DOMAIN conversation_memory' <=>
                              id \in DOMAIN conversation_memory
                       /\ Get(conversation_memory', id) = Get(conversation_memory, id) ]_vars

\* C26 witness: the full session c1 has been evicted with its turns while
\* session c2, touched later, is still there with a request under way.
C26_Witness ==
    /\ "c1" \notin DOMAIN session_metadata
    /\ "c1" \notin DOMAIN conversation_memory
    /\ "c2" \in DOMAIN session_metadata
    /\ session_metadata["c2"].last_active = now
    /\ now > 0
    /\ \E r \in Runs : runs[r].conversation_id = "c2" /\ runs[r].pc = "generating"

\* C30: every append of a turn counts.  For a session of the session map,
\* message_count is the number of turns appended to it since it was created.
C30_MessageCountCountsAppends ==
    \A id \in DOMAIN session_metadata :
        session_metadata[id].message_count = Len(Get(appended, id))

\* C31: a session is absent or active.  No session holds stored turns without
\* an entry in the session map.
C31_TurnsHaveMetadata ==
    \A id \in DOMAIN conversation_memory :
        Len(conversation_memory[id]) > 0 => id \in DOMAIN session_metadata

----------------------------------------------------------------------------
(* Properties of overlapping requests, checked under SpecOverlap and SpecMemory *)

\* The runs whose prompt has been built
Prompted == { r \in Runs : runs[r].pc \in {"generating", "done"} }

\* C32: the history of a run is a snapshot.  The history the run's prompt is
\* built from is the history the run was given when it was classified,
\* whatever other runs appended to the conversation while it was suspended.
C32_HistoryIsSnapshot ==
    \A r \in Prompted : runs[r].prompt_history = runs[r].seen_history

\* C33: the appends of overlapping runs on one conversation do not interleave.
\* The step in which a run saves its turn takes the conversation from its
\* stored turns to those turns followed by the run's turn, cut to the last
\* StreamKeep; the turns other runs saved before are kept, no other
\* conversation changes, and the conversation never shows more than StreamKeep
\* turns after the step.
C33_AppendsAreSerialized ==
    [][ \A r \in Runs :
            ( runs[r].pc = "generating" /\ runs'[r].persisted = runs[r].persisted + 1 ) =>
                LET id     == runs[r].conversation_id
                    before == Get(conversation_memory, id)
                    after  == Get(conversation_memory', id)
                    saved  == Append(before, StreamTurn(runs[r], now))
                IN  /\ after = LastN(saved, StreamKeep)
                    /\ Len(after) <= StreamKeep
                    /\ after[Len(after)].rid = runs[r].rid
                    /\ \A other \in DOMAIN conversation_memory \ {id} :
                           /\ other \in DOMAIN conversation_memory'
                           /\ conversation_memory'[other] = conversation_memory[other] ]_vars

\* C33 witness: two runs on the full conversation c1 built their prompts from
\* the same stored turns, so they overlapped; both have saved, and both turns
\* are the last two of the StreamKeep turns stored.
C33_Witness ==
    \E r1 \in Runs, r2 \in Runs :
        /\ r1 # r2
        /\ runs[r1].conversation_id = "c1" /\ runs[r2].conversation_id = "c1"
        /\ runs[r1].pc = "done" /\ runs[r2].pc = "done"
        /\ runs[r1].persisted = 1 /\ runs[r2].persisted = 1
        /\ Len(runs[r1].prompt_history) = StreamKeep
        /\ runs[r1].prompt_history = runs[r2].prompt_history
        /\ Len(Get(conversation_memory, "c1")) = StreamKeep
        /\ conversation_memory["c1"][StreamKeep - 1].rid = runs[r1].rid
        /\ conversation_memory["c1"][StreamKeep].rid = runs[r2].rid

----------------------------------------------------------------------------
(* Further properties of the tenant store, checked under SpecStore *)

\* C34: a namespace is created only by a write.  A search or a delete_document
\* for an organization whose namespace does not exist leaves the set of
\* existing collections as it was.
C34_ReadsCreateNoNamespace ==
    [][ ( /\ ret'.op \in {"search", "delete_document"}
          /\ get_collection_name(ret'.org_id) \notin DOMAIN collections ) =>
            DOMAIN collections' = DOMAIN collections ]_vars

----------------------------------------------------------------------------
(* Properties of retrieval results and of the prompt, checked under SpecOverlap *)

\* The distances the model's indexes report
ReportedDistances == 0..2

\* C35: every retrieval result has a score between 0 and 1 and a rank of at
\* least 1, and both distance-to-score transforms are monotone: a smaller
\* distance never gives a smaller score.
C35_ScoresInRange ==
    /\ \A d1 \in ReportedDistances, d2 \in ReportedDistances :
           d1 <= d2 => /\ ScoreGeq(SimilarityScore(d1), SimilarityScore(d2))
                       /\ 1 - d1 >= 1 - d2
    /\ ret.op = "search" =>
           \A i \in DOMAIN ret.result :
               /\ ScoreGeq(ret.result[i].similarity_score, <<0, 1>>)
               /\ ScoreGeq(<<1, 1>>, ret.result[i].similarity_score)
               /\ ret.result[i].rank >= 1
    /\ \A r \in Runs : \A i \in DOMAIN runs[r].retrieved_docs :
           /\ runs[r].retrieved_docs[i].score >= 0
           /\ runs[r].retrieved_docs[i].score <= 1

\* The context of a run whose prompt has been built
PromptContext(run) == BuildContext(run.prompt_history, run.query_type, run.retrieved_docs)

\* C36: the context assembled for generation stays within a fixed budget, for
\* every question, history and retrieval result; it holds at most the 3 most
\* recent turns, and retrieval content (the top result, cut) only when the
\* route is retrieval.
C36_ContextWithinBudget ==
    \A r \in Prompted :
        LET run   == runs[r]
            parts == ContextParts(run.prompt_history, run.query_type, run.retrieved_docs)
        IN  /\ Len(PromptContext(run)) <= ContextBudget
            /\ Len(parts) <= 1 + 2 * 3 + 1
            /\ run.query_type # "retrieval" =>
                   \A i \in DOMAIN parts :
                       Take(parts[i], Len(RelevantInformation)) # RelevantInformation

\* C37: the two derivations of the namespace agree.  For every organization
\* the name OrganizationService.create_org_collection_name gives is the name
\* MultiTenantVectorStore.get_collection_name gives, so it is the name of the
\* collection each call of the store works on and the name add_documents
\* reports.
C37_NamespaceDerivationsAgree ==
    /\ \A o \in OrgIds : create_org_collection_name(o) = get_collection_name(o)
    /\ ret.op \in {"add_documents", "search", "delete_document"} =>
           create_org_collection_name(ret.org_id) \in DOMAIN collections
    /\ ret.op = "add_documents" /\ ret.result.success =>
           /\ ret.result.collection_name = create_org_collection_name(ret.org_id)
           /\ \E c \in Range(collections[create_org_collection_name(ret.org_id)]) :
                  c.metadata.org_id = ret.org_id /\ c.metadata.document_id = ret.document_id

\* C37 witness: an organization has added a document while another
\* organization's collection exists; the chunks are in the collection the
\* organization service names.
C37_Witness ==
    /\ ret.op = "add_documents" /\ ret.result.success
    /\ ret.org_id = OrgC
    /\ Cardinality(DOMAIN collections) = 2
    /\ Len(collections[create_org_collection_name(OrgC)]) = ret.result.chunks_added
    /\ ret.result.chunks_added > 0

\* C38: the ranks of the results of a search are 1, 2, ..., n in list order,
\* for every threshold: the threshold removes only a tail of the candidates.
C38_RanksHaveNoGaps ==
    ret.op = "search" =>
        \A i \in DOMAIN ret.result : ret.result[i].rank = i

\* C38 witness: a search asked for 2 results in a namespace of 2 chunks, and
\* the threshold removed the farther candidate; the one result has rank 1.
C38_Witness ==
    /\ ret.op = "search" /\ ret.embed_ok /\ ret.n_results = 2
    /\ Len(Namespace(collections, ret.org_id)) = 2
    /\ Len(ret.result) = 1
    /\ ret.result[1].rank = 1

----------------------------------------------------------------------------
(* Progress of a streaming run, checked under Spec *)

\* C39: along the events of one streaming run the progress never decreases,
\* is at most 95 on every token event, and is 100 on the terminal event and on
\* no other event (progress is in tenths of a percent).
C39_ProgressMonotone ==
    \A r \in Runs :
        LET events == runs[r].events
        IN  /\ \A i \in DOMAIN events, j \in DOMAIN events :
                   i < j => events[i].progress <= events[j].progress
            /\ \A i \in DOMAIN events :
                   /\ events[i].type = "token" => events[i].progress <= 950
                   /\ events[i].progress = 1000 <=> events[i].type \in Terminal
                   /\ events[i].type \in Terminal => i = Len(events)

\* C39 witness: a run routed to retrieval streamed two chunks, the first long
\* enough to reach the cap, and completed: its events carry the progress
\* values 20, 50, 70, 80, 95, 95, 100.
C39_Witness ==
    \E r \in Runs :
        /\ runs[r].pc = "done"
        /\ runs[r].query_type = "retrieval"
        /\ [i \in DOMAIN runs[r].events |-> runs[r].events[i].progress]
               = <<200, 500, 700, 800, 950, 950, 1000>>
        /\ runs[r].events[7].type = "complete"

====
